---- MODULE Spec2Model ----
(***************************************************************************)
(* Byte-level model of the radar frame decoder of src/IMS/Main.py          *)
(* (RadarParser) and of the read loop of SerialWorker.run that drives it.  *)
(*                                                                         *)
(* Bytes are the integers 0..255 and a bytes object is a sequence of them. *)
(* Python offsets are 0-based, TLA+ sequences 1-based: data[off] of the    *)
(* source is data[off + 1] here.                                           *)
(*                                                                         *)
(* The model checker's integers are 32-bit signed, Python's are unbounded, *)
(* so a 32-bit unsigned word is represented in one of three ways, by use:  *)
(*  - a count or length (totalLength, numTlvs, numDetectedObj, TLV type    *)
(*    and length) is its value, saturated at Huge = 2^30: the code only    *)
(*    compares these with, or adds them to, buffer offsets far below 2^30; *)
(*  - a word that is stored in the result (frame number, target id) is the *)
(*    exact pair <<high 16 bits, low 16 bits>>;                            *)
(*  - a float32 is its IEEE-754 sign and 31-bit magnitude, and float       *)
(*    comparisons are computed from them (FltLess).                        *)
(***************************************************************************)
EXTENDS Integers, Sequences, FiniteSets, TLC

(***************************************************************************)
(* Protocol constants (src/IMS/Main.py:26-38, 99)                          *)
(***************************************************************************)
MAGIC_WORD == <<2, 1, 4, 3, 6, 5, 8, 7>>
HEADER_SIZE == 40
MAX_FRAME_BYTES == 65536
KEEP_TAIL == 7
TOTAL_LEN_OFFSET == 12
TLV_POINT_CLOUD == 1
TLV_POINT_CLOUD_SIDE == 4
TLV_TARGET_LIST == 6
TLV_TARGET_IDX == 7
TLV_TARGET_LIST_ALT == 12
\* IMS/detect.py
TRACK_TLV == 1010
TRACK_SIZE == 108
\* the least float32 above VELOCITY_THRESHOLD = 0.15 (0x3E19999A)
F32_ABOVE_THRESHOLD == 1041865114
POINT_STRIDE == 16
STRIDE_FULL == 112
STRIDE_LITE == 40

\* saturation value of counts and lengths
Huge == 64 * 16777216

\* magnitude bits of float32 infinity
F32_INF == 2139095040
F32(neg, mag) == [neg |-> neg, mag |-> mag]
\* the literals compared against at Main.py:189, as float32
F32_POS20 == F32(FALSE, 1101004800)
F32_NEG20 == F32(TRUE, 1101004800)
F32_ZERO == F32(FALSE, 0)
F32_NEG1 == F32(TRUE, 1065353216)
F32_POS5 == F32(FALSE, 1084227584)

Min2(a, b) == IF a <= b THEN a ELSE b

(***************************************************************************)
(* Python bytes primitives                                                 *)
(***************************************************************************)
\* data[a:b] for 0 <= a, 0 <= b (the slice is clamped to the length)
Slice(data, a, b) == SubSeq(data, a + 1, Min2(b, Len(data)))

\* data[a:]
SliceFrom(data, a) == SubSeq(data, a + 1, Len(data))

\* buf.find(MAGIC_WORD): least 0-based index of an occurrence, or -1
Find(buf) ==
    LET hits == {i \in 0..(Len(buf) - Len(MAGIC_WORD)) :
                    SubSeq(buf, i + 1, i + Len(MAGIC_WORD)) = MAGIC_WORD}
    IN  IF hits = {} THEN -1
        ELSE CHOOSE i \in hits : \A j \in hits : i <= j

\* struct.unpack_from("<I", data, off) raises struct.error unless
\* off + 4 <= len(data)
UnpackFits(data, off, size) == off + size <= Len(data)

\* struct.unpack_from("<I", data, off)[0], little endian, as a count
UnpackU32(data, off) ==
    IF data[off + 4] >= 64 THEN Huge
    ELSE data[off + 1] + 256 * data[off + 2] + 65536 * data[off + 3]
            + 16777216 * data[off + 4]

\* struct.unpack_from("<I", data, off)[0], little endian, exact
UnpackWord(data, off) ==
    <<256 * data[off + 4] + data[off + 3], 256 * data[off + 2] + data[off + 1]>>

\* struct.unpack_from("<f", data, off)[0]: the float32 whose bit pattern is
\* the little-endian word at off
UnpackF32(data, off) ==
    F32(data[off + 4] >= 128,
        data[off + 1] + 256 * data[off + 2] + 65536 * data[off + 3]
            + 16777216 * (data[off + 4] % 128))

(***************************************************************************)
(* float32 comparison on bit patterns (IEEE-754: NaN compares false with   *)
(* everything, -0 = +0, otherwise sign-magnitude order)                    *)
(***************************************************************************)
FltIsNaN(f) == f.mag > F32_INF
FltKey(f) == IF f.neg THEN 0 - f.mag ELSE f.mag
FltLess(a, b) == ~FltIsNaN(a) /\ ~FltIsNaN(b) /\ FltKey(a) < FltKey(b)

(***************************************************************************)
(* RadarParser._parse_points (Main.py:144-158)                             *)
(***************************************************************************)
RECURSIVE PointsLoop(_, _, _, _)
PointsLoop(data, i, n, pts) ==
    IF i >= n THEN pts
    ELSE IF (i + 1) * POINT_STRIDE > Len(data) THEN pts
    ELSE PointsLoop(data, i + 1, n,
            Append(pts, <<UnpackF32(data, i * POINT_STRIDE),
                          UnpackF32(data, i * POINT_STRIDE + 4),
                          UnpackF32(data, i * POINT_STRIDE + 8),
                          UnpackF32(data, i * POINT_STRIDE + 12)>>))

\* lines 150-151 trusting a hint of zero
PointCount_Hint(data, n) == n

\* lines 150-151: if n == 0: n = len(data) // stride
PointCount(data, n) == IF n = 0 THEN Len(data) \div POINT_STRIDE ELSE n

parse_points(data, n) == PointsLoop(data, 0, PointCount(data, n), <<>>)

(***************************************************************************)
(* RadarParser._parse_targets (Main.py:160-192)                            *)
(***************************************************************************)
\* line 189 with the bounds included
Plausible_Closed(x, y, z) ==
    /\ ~FltLess(x, F32_NEG20) /\ ~FltLess(F32_POS20, x)
    /\ ~FltLess(y, F32_ZERO) /\ ~FltLess(F32_POS20, y)
    /\ ~FltLess(z, F32_NEG1) /\ ~FltLess(F32_POS5, z)

\* the sanity test of line 189
Plausible(x, y, z) ==
    /\ FltLess(F32_NEG20, x) /\ FltLess(x, F32_POS20)
    /\ FltLess(F32_ZERO, y) /\ FltLess(y, F32_POS20)
    /\ FltLess(F32_NEG1, z) /\ FltLess(z, F32_POS5)

\* lines 171-177 with 112 as the fallback
TargetStride_Fallback112(len) ==
    IF len % STRIDE_FULL = 0 /\ len \div STRIDE_FULL >= 1 THEN STRIDE_FULL
    ELSE IF len % STRIDE_LITE = 0 /\ len \div STRIDE_LITE >= 1 THEN STRIDE_LITE
    ELSE STRIDE_FULL

\* lines 171-177 with the two tests in the other order
TargetStride_LiteFirst(len) ==
    IF len % STRIDE_LITE = 0 /\ len \div STRIDE_LITE >= 1 THEN STRIDE_LITE
    ELSE IF len % STRIDE_FULL = 0 /\ len \div STRIDE_FULL >= 1 THEN STRIDE_FULL
    ELSE STRIDE_LITE

\* lines 171-177
TargetStride(len) ==
    IF len % STRIDE_FULL = 0 /\ len \div STRIDE_FULL >= 1 THEN STRIDE_FULL
    ELSE IF len % STRIDE_LITE = 0 /\ len \div STRIDE_LITE >= 1 THEN STRIDE_LITE
    ELSE STRIDE_LITE

RECURSIVE TargetsLoop(_, _, _, _, _)
TargetsLoop(data, i, n, stride, targets) ==
    LET off == i * stride IN
    IF i >= n THEN targets
    ELSE IF off + 4 > Len(data) THEN targets
    ELSE IF off + 16 > Len(data) THEN targets
    ELSE LET tid == UnpackWord(data, off)
             x == UnpackF32(data, off + 4)
             y == UnpackF32(data, off + 8)
             z == UnpackF32(data, off + 12)
         IN  IF ~Plausible(x, y, z)
             THEN TargetsLoop(data, i + 1, n, stride, targets)
             ELSE TargetsLoop(data, i + 1, n, stride,
                     Append(targets, [id |-> tid, x |-> x, y |-> y, z |-> z]))

parse_targets(data) ==
    IF Len(data) = 0 THEN <<>>
    ELSE LET stride == TargetStride(Len(data))
         IN  TargetsLoop(data, 0, Len(data) \div stride, stride, <<>>)

(***************************************************************************)
(* RadarFrame (Main.py:58-63): the three slots and nothing else            *)
(***************************************************************************)
RadarFrame(frame_num, points, targets) ==
    [frame_num |-> frame_num, points |-> points, targets |-> targets]

(***************************************************************************)
(* RadarParser._parse_frame (Main.py:111-142)                              *)
(***************************************************************************)
\* line 112
MagicMismatch(data) == Slice(data, 0, 8) # MAGIC_WORD

\* lines 116-126: the eight header reads at offsets 8, 12, ..., 36; the
\* first one that does not fit raises struct.error, caught at line 125
HeaderReadFails(data) == \E k \in 0..7 : ~UnpackFits(data, 8 + 4 * k, 4)

\* the check of line 129 left out
TlvHeaderMissing_Never(data, off) == FALSE

\* line 129
TlvHeaderMissing(data, off) == off + 8 > Len(data)

\* line 133 (off is already past the 8-byte sub-header)
TlvOverrun(data, off, tlv_len) == off + tlv_len > Len(data)

\* line 135: tlv_data = data[off : off + tlv_len]
TlvPayload(data, off, tlv_len) == Slice(data, off, off + tlv_len)

\* line 135 leaving the offset where it is
TlvNextOffset_Stay(off, tlv_len) == off

\* line 135: off += tlv_len
TlvNextOffset(off, tlv_len) == off + tlv_len

\* lines 137-140 adding to the slots instead of assigning them
TlvDispatch_Concat(st, tlv_type, tlv_data, num_det) ==
    IF tlv_type = TLV_POINT_CLOUD
    THEN [st EXCEPT !.points = @ \o parse_points(tlv_data, num_det)]
    ELSE IF tlv_type \in {TLV_TARGET_LIST, TLV_TARGET_LIST_ALT}
    THEN [st EXCEPT !.targets = @ \o parse_targets(tlv_data)]
    ELSE st

\* lines 137-140: the dispatch on the TLV type; st is [points, targets]
TlvDispatch(st, tlv_type, tlv_data, num_det) ==
    IF tlv_type = TLV_POINT_CLOUD
    THEN [st EXCEPT !.points = parse_points(tlv_data, num_det)]
    ELSE IF tlv_type \in {TLV_TARGET_LIST, TLV_TARGET_LIST_ALT}
    THEN [st EXCEPT !.targets = parse_targets(tlv_data)]
    ELSE st

\* The for loop of lines 128-140.  k counts the iterations entered.  The
\* result carries the frame slots and three observations of the control
\* flow: raised (a struct.error left the loop), stop (how the loop ended)
\* and tlvs (the TLVs that were sliced and dispatched, in order: offset of
\* the sub-header, type, length field and length of the payload slice).
RECURSIVE TlvLoop(_, _, _, _, _, _, _)
TlvLoop(data, off, k, num_tlvs, num_det, st, tlvs) ==
    IF k >= num_tlvs
    THEN [st |-> st, raised |-> FALSE, stop |-> "done", steps |-> k,
          tlvs |-> tlvs]
    ELSE IF TlvHeaderMissing(data, off)
    THEN [st |-> st, raised |-> FALSE, stop |-> "nohdr", steps |-> k + 1,
          tlvs |-> tlvs]
    ELSE IF ~UnpackFits(data, off, 4) \/ ~UnpackFits(data, off + 4, 4)
    THEN [st |-> st, raised |-> TRUE, stop |-> "raised", steps |-> k + 1,
          tlvs |-> tlvs]
    ELSE LET tlv_type == UnpackU32(data, off)
             tlv_len == UnpackU32(data, off + 4)
             off2 == off + 8
         IN  IF TlvOverrun(data, off2, tlv_len)
             THEN [st |-> st, raised |-> FALSE, stop |-> "overrun",
                   steps |-> k + 1, tlvs |-> tlvs]
             ELSE TlvLoop(data, TlvNextOffset(off2, tlv_len), k + 1,
                          num_tlvs, num_det,
                          TlvDispatch(st, tlv_type,
                                      TlvPayload(data, off2, tlv_len), num_det),
                          Append(tlvs, [at |-> off, type |-> tlv_type,
                                        len |-> tlv_len,
                                        plen |-> Len(TlvPayload(data, off2,
                                                                tlv_len))]))

NoFrame ==
    [none |-> TRUE, frame |-> RadarFrame(<<0, 0>>, <<>>, <<>>), raised |-> FALSE,
     stop |-> "none", steps |-> 0, tlvs |-> <<>>]

parse_frame(data) ==
    IF MagicMismatch(data) THEN NoFrame
    ELSE IF HeaderReadFails(data) THEN NoFrame
    ELSE LET frame_num == UnpackWord(data, 20)
             num_det == UnpackU32(data, 28)
             num_tlvs == UnpackU32(data, 32)
             w == TlvLoop(data, HEADER_SIZE, 0, num_tlvs, num_det,
                          [points |-> <<>>, targets |-> <<>>], <<>>)
         IN  [none |-> FALSE,
              frame |-> RadarFrame(frame_num, w.st.points, w.st.targets),
              raised |-> w.raised, stop |-> w.stop, steps |-> w.steps,
              tlvs |-> w.tlvs]

(***************************************************************************)
(* RadarParser.parse_buffer (Main.py:82-109)                               *)
(***************************************************************************)
\* line 88 clearing the buffer
KeepTail_DropAll(buf) == <<>>

\* line 88 keeping the buffer as it is
KeepTail_KeepAll(buf) == buf

\* line 88 keeping the last 8 bytes
KeepTail_Eight(buf) ==
    IF Len(buf) >= 8 THEN SliceFrom(buf, Len(buf) - 8) ELSE buf

\* line 88 keeping one byte less
KeepTail_Six(buf) ==
    IF Len(buf) >= KEEP_TAIL - 1 THEN SliceFrom(buf, Len(buf) - (KEEP_TAIL - 1))
    ELSE buf

\* line 88: buf[-7:] if len(buf) >= 7 else buf
KeepTail(buf) ==
    IF Len(buf) >= KEEP_TAIL THEN SliceFrom(buf, Len(buf) - KEEP_TAIL) ELSE buf

\* lines 90-91 dropping the first byte of the magic word as well
TrimToMagic_Past(buf, idx) == SliceFrom(buf, idx + 1)

\* lines 90-91: if idx > 0: buf = buf[idx:]
TrimToMagic(buf, idx) == IF idx > 0 THEN SliceFrom(buf, idx) ELSE buf

\* line 99
BadLength(total_len) == total_len < HEADER_SIZE \/ total_len > MAX_FRAME_BYTES

\* line 103 never waiting for the rest of the candidate
BodyMissing_Never(buf, total_len) == FALSE

\* line 103
BodyMissing(buf, total_len) == Len(buf) < total_len

\* line 101 skipping nothing
AfterBadSync_NoSkip(buf) == buf

\* line 101 skipping the whole magic word
AfterBadSync_SkipMagic(buf) == SliceFrom(buf, Len(MAGIC_WORD))

\* line 101: buf = buf[1:]
AfterBadSync(buf) == SliceFrom(buf, 1)

\* line 105 handing over everything that is buffered
Candidate_Rest(buf, total_len) == buf

\* line 105: buf[:total_len]
Candidate(buf, total_len) == Slice(buf, 0, total_len)

\* line 108 dropping the header only
AfterCandidate_HeaderOnly(buf, total_len) == SliceFrom(buf, HEADER_SIZE)

\* line 108 dropping the magic word only
AfterCandidate_MagicOnly(buf, total_len) == SliceFrom(buf, Len(MAGIC_WORD))

\* line 108: buf = buf[total_len:]
AfterCandidate(buf, total_len) == SliceFrom(buf, total_len)

\* line 107 inserting at the front
AppendFrame_Prepend(frames, tagged) == <<tagged>> \o frames

\* lines 106-107; a frame travels with the stream offset and length of the
\* slice it was decoded from (off, len: observations, not slots)
AppendFrame(frames, tagged) == Append(frames, tagged)

\* One iteration of the while loop of lines 84-108 on buffer buf, up to
\* the call of _parse_frame: which branch is taken, the buffer after it
\* and, on "consume", the candidate slice handed to _parse_frame.
PBStep(buf) ==
    LET idx == Find(buf) IN
    IF idx < 0
    THEN [kind |-> "nomagic", buf |-> KeepTail(buf), idx |-> idx,
          cand |-> <<>>]
    ELSE LET b1 == TrimToMagic(buf, idx) IN
         IF Len(b1) < HEADER_SIZE \/ Len(b1) < 16
         THEN [kind |-> "waithdr", buf |-> b1, idx |-> idx, cand |-> <<>>]
         ELSE LET total_len == UnpackU32(b1, TOTAL_LEN_OFFSET) IN
              IF BadLength(total_len)
              THEN [kind |-> "badlen", buf |-> AfterBadSync(b1), idx |-> idx,
                    cand |-> <<>>]
              ELSE IF BodyMissing(b1, total_len)
              THEN [kind |-> "waitbody", buf |-> b1, idx |-> idx,
                    cand |-> <<>>]
              ELSE [kind |-> "consume", buf |-> AfterCandidate(b1, total_len),
                    idx |-> idx, cand |-> Candidate(b1, total_len)]

\* The whole call on buffer buf whose first byte is at stream offset base:
\* [frames, buf, raised].
RECURSIVE Drain(_, _, _)
Drain(buf, base, frames) ==
    LET s == PBStep(buf) IN
    IF s.kind \in {"nomagic", "waithdr", "waitbody"}
    THEN [frames |-> frames, buf |-> s.buf, raised |-> FALSE]
    ELSE IF s.kind = "badlen"
    THEN Drain(s.buf, base + (Len(buf) - Len(s.buf)), frames)
    ELSE LET r == parse_frame(s.cand) IN
         IF r.raised
         THEN [frames |-> frames, buf |-> buf, raised |-> TRUE]
         ELSE Drain(s.buf, base + (Len(buf) - Len(s.buf)),
                    IF r.none THEN frames
                    ELSE AppendFrame(frames,
                            [off |-> base + s.idx, len |-> Len(s.cand),
                             fr |-> r.frame]))

parse_buffer(buf) == Drain(buf, 0, <<>>)

(***************************************************************************)
(* Input streams.  A stream is the concatenation of at most MaxPieces      *)
(* pieces, each encoded as the wire format read by _parse_frame lays it    *)
(* out; the piece at position i carries frame number i.                    *)
(***************************************************************************)
MaxPieces == 2
MaxChunk == 2

LE32(v) ==
    <<v % 256, (v \div 256) % 256, (v \div 65536) % 256,
      (v \div 16777216) % 256>>

\* magic | version | totalLength | platform | frameNumber | cpuTime |
\* numDetectedObj | numTlvs | subframeNumber
EncHeader(total, fn, ndet, ntlv) ==
    MAGIC_WORD \o LE32(50659332) \o LE32(total) \o LE32(682051) \o LE32(fn)
        \o LE32(1000 + fn) \o LE32(ndet) \o LE32(ntlv) \o LE32(0)

\* the same without subframeNumber, 36 bytes, with version 0x01000005
EncHeaderOld(total, fn, ndet, ntlv) ==
    MAGIC_WORD \o LE32(16777221) \o LE32(total) \o LE32(682051) \o LE32(fn)
        \o LE32(1000 + fn) \o LE32(ndet) \o LE32(ntlv)

EncTlv(type, len, payload) == LE32(type) \o LE32(len) \o payload

\* struct.pack("<f", f)
EncF32(f) ==
    <<f.mag % 256, (f.mag \div 256) % 256, (f.mag \div 65536) % 256,
      (f.mag \div 16777216) + (IF f.neg THEN 128 ELSE 0)>>

\* the floats 1.0, 2.0, 0.5, -0.3 (float32 nearest) and 0.0
F_1_0 == F32(FALSE, 1065353216)
F_2_0 == F32(FALSE, 1073741824)
F_0_5 == F32(FALSE, 1056964608)
F_M0_3 == F32(TRUE, 1050253722)

PointA == <<F_1_0, F_2_0, F_0_5, F_M0_3>>
EncPoint(p) == EncF32(p[1]) \o EncF32(p[2]) \o EncF32(p[3]) \o EncF32(p[4])
PointB == <<F_M0_3, F_1_0, F_0_5, F_2_0>>
PointOf(name) == IF name = "A" THEN PointA ELSE PointB
PointNames == {"A", "B"}

RECURSIVE EncPoints(_, _)
EncPoints(pts, i) ==
    IF i > Len(pts) THEN <<>>
    ELSE EncPoint(PointOf(pts[i])) \o EncPoints(pts, i + 1)

\* the payload of a point-cloud TLV: the points and pad trailing bytes
PointPayload(p) == EncPoints(p.pts, 1) \o [i \in 1..p.pad |-> 171]

\* the floats whose bytes are the two halves of the magic word
F_MAGIC_LO == F32(FALSE, 50594050)
F_MAGIC_HI == F32(FALSE, 117966086)

\* a point whose x and y spell the magic word
PointMagic == <<F_MAGIC_LO, F_MAGIC_HI, F_0_5, F32_ZERO>>

\* a point whose x and y spell the magic word and whose doppler has the
\* bits of the integer 64, the length of the frame that carries it
PointLock == <<F_MAGIC_LO, F_MAGIC_HI, F_0_5, F32(FALSE, 64)>>

\* a 40-byte "lite" target record: tid, x, y, z and six more floats
EncTargetLite(t) ==
    LE32(t.id[2]) \o EncF32(t.x) \o EncF32(t.y) \o EncF32(t.z)
        \o [i \in 1..24 |-> 0]

\* a 112-byte "full" target record: the lite record, 16 covariance floats,
\* gain and confidence
EncTargetFull(t) == EncTargetLite(t) \o [i \in 1..72 |-> 0]

\* a plausible target whose x and y spell the magic word
TargetMagic == [id |-> <<0, 7>>, x |-> F_MAGIC_LO, y |-> F_MAGIC_HI, z |-> F_0_5]

\* target records by name: A and B pass the sanity test of line 189, Y0 has
\* y = 0.0, FAR has x = 20.0, ZLO has z = -1.0 and the id of A, ZHI has
\* z = 5.0 and the id of B, A2 passes the test and has the id of A at the
\* position of B
TargetOf(name) ==
    CASE name = "A" -> [id |-> <<0, 1>>, x |-> F_1_0, y |-> F_2_0, z |-> F_0_5]
      [] name = "B" -> [id |-> <<0, 2>>, x |-> F_M0_3, y |-> F_1_0, z |-> F_0_5]
      [] name = "Y0" -> [id |-> <<0, 3>>, x |-> F_1_0, y |-> F32_ZERO,
                         z |-> F_0_5]
      [] name = "FAR" -> [id |-> <<0, 4>>, x |-> F32_POS20, y |-> F_2_0,
                          z |-> F_0_5]
      [] name = "ZLO" -> [id |-> <<0, 1>>, x |-> F_1_0, y |-> F_2_0,
                          z |-> F32_NEG1]
      [] name = "ZHI" -> [id |-> <<0, 2>>, x |-> F_M0_3, y |-> F_1_0,
                          z |-> F32_POS5]
      [] name = "A2" -> [id |-> <<0, 1>>, x |-> F_M0_3, y |-> F_1_0,
                         z |-> F_0_5]

TargetNames == {"A", "B", "Y0", "FAR", "ZLO", "ZHI"}

RECURSIVE EncTargets(_, _, _)
EncTargets(recs, stride, i) ==
    IF i > Len(recs) THEN <<>>
    ELSE (IF stride = STRIDE_FULL THEN EncTargetFull(TargetOf(recs[i]))
          ELSE EncTargetLite(TargetOf(recs[i])))
            \o EncTargets(recs, stride, i + 1)

\* payload of a target-list TLV: the records, then pad more bytes
TargetPayload(p) == EncTargets(p.recs, p.stride, 1) \o [i \in 1..p.pad |-> 0]

Piece(k) == [k |-> k]
FramePieces ==
    {Piece(k) : k \in {"F0", "FP", "FM", "FTM", "FTR", "FZ", "FX"}}
JunkPieces == {Piece(k) : k \in {"BAD0", "BADBIG", "LONG", "MG", "NA", "N7"}}
StreamPieces == FramePieces \cup JunkPieces

\* The bytes of piece p sent as frame number fn.
\*   F0     header only
\*   FP     one point-cloud TLV whose length field is the payload length
\*   FM     as FP, the point spells the magic word
\*   FL     as FP, the point is PointLock
\*   FTM    one target-list TLV, the record spells the magic word
\*   FTR    a point-cloud TLV, then a TLV that declares 40 payload bytes
\*          where the frame ends
\*   FZ     numTlvs = 2^32 - 1 and two zero-length TLVs
\*   FX     numDetectedObj = 2^32 - 1; a point-cloud TLV of 20 bytes, a
\*          target-list TLV of 50 bytes and a TLV that declares 2^32 - 1
\*          bytes
\*   BAD0, BADBIG  magic word and header with totalLength 0 / 65537
\*   LONG   magic word and header with totalLength 48, 40 bytes sent
\*   MG     the magic word alone
\*   NA     noise ending in the first 7 bytes of the magic word
\*   N7     noise starting with the last byte of the magic word
\*   PT     one point-cloud TLV with 16 payload bytes and length field
\*          p.tlvlen
\*   TL     one target-list TLV of type p.type: p.recs at p.stride bytes
\*          each, then p.pad bytes
\*   TR     p.first ("PT" or "TL"), then a TLV that declares p.over payload
\*          bytes where the frame ends
\*   OLD    version 0x01000005 and a 36-byte header; alone (p.tlvlen = 0)
\*          or with one point-cloud TLV of 16 payload bytes and length
\*          field p.tlvlen
\*   UK     a point-cloud TLV with one point and a target-list TLV with
\*          one record, and before, between or after them (p.pos = 0, 1,
\*          2) a TLV of type p.type with p.plen payload bytes; p.pos = 3:
\*          without that TLV
\*   SP     a point-cloud TLV and a target-list TLV whose length fields
\*          count the 8-byte sub-header: 24 for 16 payload bytes, 48 for 40
\*   NZ     p.n bytes 0x09, without a magic word
\*   T2     a header announcing two TLVs and one point-cloud TLV of 16
\*          payload bytes whose length field is 40000
\* a 108-byte track record as PeopleMotionDetector.parse_targets reads it
\* ("<I26f": tid, posX, posY, velX, velY and 22 more floats)
EncTrack(t) ==
    LE32(t.tid[2]) \o EncF32(t.posX) \o EncF32(t.posY) \o EncF32(t.velX)
        \o EncF32(t.velY) \o [i \in 1..88 |-> 0]

\* track S stands still, track M moves at 1.0 m/s along x
TrackOf(name) ==
    IF name = "S"
    THEN [tid |-> <<0, 1>>, posX |-> F_1_0, posY |-> F_2_0,
          velX |-> F32_ZERO, velY |-> F32_ZERO]
    ELSE [tid |-> <<0, 2>>, posX |-> F_M0_3, posY |-> F_1_0,
          velX |-> F_1_0, velY |-> F32_ZERO]

\* one TLV of a frame with several TLVs of a kind, by name
NamedTlv(name) ==
    CASE name = "PA" -> EncTlv(TLV_POINT_CLOUD, 16, EncPoint(PointA))
      [] name = "PB" -> EncTlv(TLV_POINT_CLOUD, 16, EncPoint(PointB))
      [] name = "P0" -> EncTlv(TLV_POINT_CLOUD, 0, <<>>)
      [] name = "T6A" ->
            EncTlv(TLV_TARGET_LIST, 40, EncTargetLite(TargetOf("A")))
      [] name = "T6Y" ->
            EncTlv(TLV_TARGET_LIST, 40, EncTargetLite(TargetOf("Y0")))
      [] name = "T12A" ->
            EncTlv(TLV_TARGET_LIST_ALT, 40, EncTargetLite(TargetOf("A")))
      [] name = "T12B" ->
            EncTlv(TLV_TARGET_LIST_ALT, 40, EncTargetLite(TargetOf("B")))

RECURSIVE NamedTlvs(_, _)
NamedTlvs(names, i) ==
    IF i > Len(names) THEN <<>>
    ELSE NamedTlv(names[i]) \o NamedTlvs(names, i + 1)

PieceBytes(p, fn) ==
    CASE p.k = "F0" -> EncHeader(40, fn, 0, 0)
      [] p.k = "FP" -> EncHeader(64, fn, 1, 1)
                            \o EncTlv(TLV_POINT_CLOUD, 16, EncPoint(PointA))
      [] p.k = "FM" -> EncHeader(64, fn, 1, 1)
                            \o EncTlv(TLV_POINT_CLOUD, 16, EncPoint(PointMagic))
      [] p.k = "FL" -> EncHeader(64, fn, 1, 1)
                            \o EncTlv(TLV_POINT_CLOUD, 16, EncPoint(PointLock))
      [] p.k = "FTM" -> EncHeader(88, fn, 0, 1)
                            \o EncTlv(TLV_TARGET_LIST, 40,
                                      EncTargetLite(TargetMagic))
      [] p.k = "FTR" -> EncHeader(72, fn, 1, 2)
                            \o EncTlv(TLV_POINT_CLOUD, 16, EncPoint(PointA))
                            \o EncTlv(TLV_TARGET_LIST, 40, <<>>)
      [] p.k = "FZ" -> SubSeq(EncHeader(56, fn, 0, 0), 1, 32)
                            \o <<255, 255, 255, 255>> \o LE32(0)
                            \o EncTlv(TLV_POINT_CLOUD_SIDE, 0, <<>>)
                            \o EncTlv(TLV_TARGET_IDX, 0, <<>>)
      [] p.k = "FX" -> SubSeq(EncHeader(134, fn, 0, 0), 1, 28)
                            \o <<255, 255, 255, 255>> \o LE32(3) \o LE32(0)
                            \o EncTlv(TLV_POINT_CLOUD, 20,
                                      EncPoint(PointA) \o <<1, 2, 3, 4>>)
                            \o EncTlv(TLV_TARGET_LIST_ALT, 50,
                                      EncTargetLite(TargetOf("A"))
                                        \o [i \in 1..10 |-> 255])
                            \o LE32(TLV_TARGET_LIST) \o <<255, 255, 255, 255>>
      [] p.k = "BAD0" -> EncHeader(0, fn, 0, 0)
      [] p.k = "BADBIG" -> EncHeader(MAX_FRAME_BYTES + 1, fn, 0, 0)
      [] p.k = "LONG" -> EncHeader(48, fn, 0, 0)
      [] p.k = "MG" -> MAGIC_WORD
      [] p.k = "NZ" -> [i \in 1..p.n |-> 9]
      [] p.k = "T2" -> EncHeader(64, fn, 1, 2)
                            \o EncTlv(TLV_POINT_CLOUD, 40000, EncPoint(PointA))
      [] p.k = "NA" -> <<9, 9, 9, 2, 1, 4, 3, 6, 5, 8>>
      [] p.k = "N7" -> <<7, 0>>
      [] p.k = "RX" -> EncHeader(64, fn, 1, 1)
                            \o EncTlv(TLV_POINT_CLOUD, 1000, EncPoint(PointA))
      [] p.k = "DV" -> EncHeader(156, fn, 0, 1)
                            \o EncTlv(TRACK_TLV, 116, EncTrack(TrackOf("S")))
      [] p.k = "DM" -> EncHeader(264, fn, 0, 1)
                            \o EncTlv(TRACK_TLV, 224,
                                      EncTrack(TrackOf("M"))
                                          \o EncTrack(TrackOf("S")))
      [] p.k = "D0" -> EncHeader(40, fn, 0, 0)
      [] p.k = "DH" -> EncHeader(44, fn, 0, 1) \o LE32(TRACK_TLV)
      [] p.k = "DR" -> EncHeader(98, fn, 0, 1)
                            \o EncTlv(TRACK_TLV, 116,
                                      Slice(EncTrack(TrackOf("S")), 0, 50))
      [] p.k = "DZ" -> EncHeader(0, fn, 0, 0)
      [] p.k = "DZ1" -> EncHeader(0, fn, 0, 1)
      [] p.k = "DS" -> EncHeader(4, fn, 0, 0)
      [] p.k = "MT" ->
            EncHeader(HEADER_SIZE + Len(NamedTlvs(p.tlvs, 1)), fn, 0,
                      Len(p.tlvs))
                \o NamedTlvs(p.tlvs, 1)
      [] p.k = "PN" -> EncHeader(48 + Len(PointPayload(p)), fn, p.hint, 1)
                            \o EncTlv(TLV_POINT_CLOUD, Len(PointPayload(p)),
                                      PointPayload(p))
      [] p.k = "PT" -> EncHeader(64, fn, 1, 1)
                            \o EncTlv(TLV_POINT_CLOUD, p.tlvlen, EncPoint(PointA))
      [] p.k = "TL" -> EncHeader(48 + Len(TargetPayload(p)), fn, 0, 1)
                            \o EncTlv(p.type, Len(TargetPayload(p)),
                                      TargetPayload(p))
      [] p.k = "TR" ->
            IF p.first = "PT"
            THEN EncHeader(72, fn, 1, 2)
                    \o EncTlv(TLV_POINT_CLOUD, 16, EncPoint(PointA))
                    \o EncTlv(TLV_TARGET_IDX, p.over, <<>>)
            ELSE EncHeader(96, fn, 0, 2)
                    \o EncTlv(TLV_TARGET_LIST, 40, EncTargetLite(TargetOf("A")))
                    \o EncTlv(TLV_TARGET_IDX, p.over, <<>>)
      [] p.k = "OLD" ->
            IF p.tlvlen = 0 THEN EncHeaderOld(36, fn, 0, 0)
            ELSE EncHeaderOld(60, fn, 1, 1)
                    \o EncTlv(TLV_POINT_CLOUD, p.tlvlen, EncPoint(PointA))
      [] p.k = "UK" ->
            LET K1 == EncTlv(TLV_POINT_CLOUD, 16, EncPoint(PointA))
                K2 == EncTlv(TLV_TARGET_LIST, 40, EncTargetLite(TargetOf("A")))
                U == EncTlv(p.type, p.plen, [i \in 1..p.plen |-> 171])
            IN  IF p.pos = 0
                THEN EncHeader(120 + p.plen, fn, 1, 3) \o U \o K1 \o K2
                ELSE IF p.pos = 1
                THEN EncHeader(120 + p.plen, fn, 1, 3) \o K1 \o U \o K2
                ELSE IF p.pos = 2
                THEN EncHeader(120 + p.plen, fn, 1, 3) \o K1 \o K2 \o U
                ELSE EncHeader(112, fn, 1, 2) \o K1 \o K2
      [] p.k = "SP" -> EncHeader(112, fn, 1, 2)
                            \o EncTlv(TLV_POINT_CLOUD, 24, EncPoint(PointA))
                            \o EncTlv(TLV_TARGET_LIST, 48,
                                      EncTargetLite(TargetOf("A")))

RECURSIVE StreamBytes(_, _)
StreamBytes(ps, i) ==
    IF i > Len(ps) THEN <<>>
    ELSE PieceBytes(ps[i], i) \o StreamBytes(ps, i + 1)

\* stream offset at which piece i starts
RECURSIVE PieceStart(_, _)
PieceStart(ps, i) ==
    IF i = 1 THEN 0
    ELSE PieceStart(ps, i - 1) + Len(PieceBytes(ps[i - 1], i - 1))

\* the RadarFrame a frame piece of the stream describes
ExpectedFrame(p, fn) ==
    CASE p.k \in {"F0", "FZ"} -> RadarFrame(<<0, fn>>, <<>>, <<>>)
      [] p.k \in {"FP", "FTR"} -> RadarFrame(<<0, fn>>, <<PointA>>, <<>>)
      [] p.k = "FM" -> RadarFrame(<<0, fn>>, <<PointMagic>>, <<>>)
      [] p.k = "FL" -> RadarFrame(<<0, fn>>, <<PointLock>>, <<>>)
      [] p.k = "FTM" -> RadarFrame(<<0, fn>>, <<>>, <<TargetMagic>>)
      [] p.k = "FX" -> RadarFrame(<<0, fn>>, <<PointA>>, <<TargetOf("A")>>)

PieceSeqs == UNION {[1..n -> StreamPieces] : n \in 1..MaxPieces}

\* streams without end: fewer than MaxPieces junk pieces, then one frame
\* sent again and again
EndlessFrames == {Piece(k) : k \in {"F0", "FP", "FM", "FTM", "FL"}}
EndlessJunk == {Piece(k) : k \in {"BAD0", "LONG", "MG", "NA"}}
EndlessSeqs ==
    {j \o <<f>> : j \in UNION {[1..n -> EndlessJunk] : n \in 0..(MaxPieces - 1)},
                  f \in EndlessFrames}

\* single frames for the decoding of one frame
MaxRecs == 3
RecSeqs(lo, hi) == UNION {[1..n -> TargetNames] : n \in lo..hi}
\* 14 records of 40 bytes: 560 bytes, a multiple of 112 as well
BothStridesPiece ==
    [k |-> "TL", type |-> TLV_TARGET_LIST, stride |-> STRIDE_LITE,
     recs |-> [i \in 1..14 |-> IF i % 2 = 1 THEN "A" ELSE "B"], pad |-> 0]
TargetListPieces ==
    {[k |-> "TL", type |-> t, stride |-> STRIDE_LITE, recs |-> r, pad |-> d] :
        t \in {TLV_TARGET_LIST, TLV_TARGET_LIST_ALT}, r \in RecSeqs(0, MaxRecs),
        d \in {0, 10}}
    \cup
    {[k |-> "TL", type |-> t, stride |-> STRIDE_FULL, recs |-> r, pad |-> d] :
        t \in {TLV_TARGET_LIST, TLV_TARGET_LIST_ALT}, r \in RecSeqs(1, 2),
        d \in {0, 8}}
    \cup {BothStridesPiece}
PointPieces == {[k |-> "PT", tlvlen |-> n] : n \in {16, 24}}
TruncPieces ==
    {[k |-> "TR", first |-> f, over |-> n] : f \in {"PT", "TL"}, n \in {1, 24}}
InclusivePieces == {Piece("SP")}
\* frames with one point-cloud TLV of 0 to MaxPoints points, with or
\* without 8 trailing bytes, under a numDetectedObj of 0, 1, 2 or 5
MaxPoints == 3
PointSeqs == UNION {[1..n -> PointNames] : n \in 0..MaxPoints}
PointHintPieces ==
    {[k |-> "PN", hint |-> h, pts |-> q, pad |-> d] :
        h \in {0, 1, 2, 5}, q \in PointSeqs, d \in {0, 8}}
OldVersionPieces == {[k |-> "OLD", tlvlen |-> n] : n \in {0, 16, 24}}
\* TLV types that are none of 1, 6, 12; the last two have the low byte of
\* 6 and of 1
OtherTypes == {TLV_POINT_CLOUD_SIDE, TLV_TARGET_IDX, 2, 13, 262, 16777217}
UnknownTlvPieces ==
    {[k |-> "UK", type |-> t, plen |-> n, pos |-> i] :
        t \in OtherTypes, n \in {0, 5, 16}, i \in 0..3}
\* frames with 2 to MaxTlvs TLVs, point clouds and target lists of both
\* types in every order
MaxTlvs == 3
TlvNames == {"PA", "PB", "P0", "T6A", "T6Y", "T12A", "T12B"}
ManyTlvPieces ==
    {[k |-> "MT", tlvs |-> q] : q \in UNION {[1..n -> TlvNames] : n \in 2..MaxTlvs}}
DecodePieces ==
    TargetListPieces \cup PointPieces \cup TruncPieces \cup FramePieces
        \cup InclusivePieces \cup OldVersionPieces \cup UnknownTlvPieces
        \cup PointHintPieces \cup ManyTlvPieces

(***************************************************************************)
(* State                                                                   *)
(***************************************************************************)
VARIABLES
    \* Each specification models one reader of the data port; the variables
    \* hold the state of that reader.  The comments name the state of
    \* IMS/Main.py; the sections of the other readers say what they hold
    \* there.
    pieces,     \* the pieces the stream was built from (input description)
    stream,     \* every byte the data port will deliver
    rd,         \* number of bytes read from the port so far
    pc,         \* position of the driver: "sniff", "read", "parse", "emit",
                \* "closed"
    buf,        \* the local buf of the read loop / of parse_buffer
    frames,     \* the local frames list of the running parse_buffer call
    emitted,    \* frames passed to sig.frame.emit, in emission order
    base,       \* stream offset of buf[0] (observation)
    iter,       \* iterations of the while loop entered in the running call
    callLen,    \* len(buf) when the running call was entered
    lastKind,   \* branch taken by the last loop iteration
    handed,     \* the slices handed to _parse_frame so far: [off, len] and
                \* how the TLV loop ran on each: [steps, stop]
    straddle,   \* some read so far ended inside a magic word of the stream
    raised      \* an exception left parse_buffer

vars == <<pieces, stream, rd, pc, buf, frames, emitted, base, iter, callLen,
          lastKind, handed, straddle, raised>>

\* bound on the loop counter kept for observation
MaxIter == 400

InitCommon ==
    /\ pieces \in PieceSeqs
    /\ stream = StreamBytes(pieces, 1)
    /\ rd = 0
    /\ buf = <<>>
    /\ frames = <<>>
    /\ emitted = <<>>
    /\ base = 0
    /\ iter = 0
    /\ callLen = 0
    /\ lastKind = "none"
    /\ handed = <<>>
    /\ straddle = FALSE
    /\ raised = FALSE

\* the chunk sizes a read may return when rem bytes are still to come
ChunkSizes(rem) == {n \in 1..rem : n <= MaxChunk \/ n = rem \/ n = HEADER_SIZE}

(***************************************************************************)
(* SerialWorker.run, read loop (Main.py:389-399)                           *)
(***************************************************************************)
\* a read that ends at stream offset r ends inside a magic word
CutsMagic(r) ==
    \E k \in 1..(Len(MAGIC_WORD) - 1) :
        r >= k /\ Slice(stream, r - k, r - k + Len(MAGIC_WORD)) = MAGIC_WORD

\* lines 391-397: a chunk of n bytes is appended and parse_buffer is entered
ReadChunk(n) ==
    /\ pc = "read"
    /\ buf' = buf \o Slice(stream, rd, rd + n)
    /\ rd' = rd + n
    /\ callLen' = Len(buf) + n
    /\ straddle' = (straddle \/ CutsMagic(rd + n))
    /\ pc' = "parse"
    /\ frames' = <<>>
    /\ iter' = 0
    /\ lastKind' = "none"
    /\ UNCHANGED <<pieces, stream, emitted, base, handed, raised>>

Read == \E n \in ChunkSizes(Len(stream) - rd) : ReadChunk(n)

\* the read returns everything the port still has to deliver
ReadAll == rd < Len(stream) /\ ReadChunk(Len(stream) - rd)

\* An iteration of the while loop that ends in break, followed by
\* return frames, buf (line 109).
LoopBreak(kind) ==
    /\ pc = "parse"
    /\ iter < MaxIter
    /\ LET s == PBStep(buf) IN
          /\ s.kind = kind
          /\ buf' = s.buf
          /\ base' = base + (Len(buf) - Len(s.buf))
    /\ iter' = iter + 1
    /\ lastKind' = kind
    /\ pc' = "emit"
    /\ UNCHANGED <<pieces, stream, rd, frames, emitted, callLen, handed,
                   straddle, raised>>

\* lines 86-89: no magic word, keep the last 7 bytes
NoMagic ==
    /\ PBStep(buf).kind = "nomagic"
    /\ LoopBreak("nomagic")

\* lines 92-96: the header is not complete yet
WaitHeader ==
    /\ PBStep(buf).kind = "waithdr"
    /\ LoopBreak("waithdr")

\* lines 103-104: the frame is not complete yet
WaitBody ==
    /\ PBStep(buf).kind = "waitbody"
    /\ LoopBreak("waitbody")

\* lines 99-102: bad sync, skip one byte and search again
BadSync ==
    /\ pc = "parse"
    /\ iter < MaxIter
    /\ LET s == PBStep(buf) IN
          /\ s.kind = "badlen"
          /\ buf' = s.buf
          /\ base' = base + (Len(buf) - Len(s.buf))
    /\ iter' = iter + 1
    /\ lastKind' = "badlen"
    /\ UNCHANGED <<pieces, stream, rd, pc, frames, emitted, callLen, handed,
                   straddle, raised>>

\* lines 105-108: the candidate is handed to _parse_frame and dropped
Consume ==
    /\ pc = "parse"
    /\ iter < MaxIter
    /\ LET s == PBStep(buf)
           r == parse_frame(s.cand)
       IN  /\ s.kind = "consume"
           /\ handed' = Append(handed, [off |-> base + s.idx,
                                        len |-> Len(s.cand),
                                        steps |-> r.steps, stop |-> r.stop])
           /\ IF r.raised
              THEN /\ raised' = TRUE
                   /\ pc' = "closed"
                   /\ UNCHANGED <<buf, base, frames>>
              ELSE /\ raised' = FALSE
                   /\ pc' = pc
                   /\ frames' = IF r.none THEN frames
                                ELSE AppendFrame(frames,
                                        [off |-> base + s.idx,
                                         len |-> Len(s.cand), fr |-> r.frame])
                   /\ buf' = s.buf
                   /\ base' = base + (Len(buf) - Len(s.buf))
    /\ iter' = iter + 1
    /\ lastKind' = "consume"
    /\ UNCHANGED <<pieces, stream, rd, emitted, callLen, straddle>>

\* lines 398-399: for fr in frames: self.sig.frame.emit(fr).  The locals of
\* the finished call are dead from here on and are cleared.
EmitFrames ==
    /\ pc = "emit"
    /\ emitted' = emitted \o frames
    /\ pc' = "read"
    /\ frames' = <<>>
    /\ iter' = 0
    /\ callLen' = 0
    /\ lastKind' = "none"
    /\ UNCHANGED <<pieces, stream, rd, buf, base, handed, straddle, raised>>

(***************************************************************************)
(* SerialWorker.run, sniff loop (Main.py:368-388)                          *)
(***************************************************************************)
\* lines 370-375 and, once the magic word is in sniff_buf, line 388
Sniff ==
    /\ pc = "sniff"
    /\ \E n \in ChunkSizes(Len(stream) - rd) :
          /\ buf' = buf \o Slice(stream, rd, rd + n)
          /\ rd' = rd + n
          /\ straddle' = (straddle \/ CutsMagic(rd + n))
    /\ pc' = IF Find(buf') >= 0 THEN "read" ELSE "sniff"
    /\ UNCHANGED <<pieces, stream, frames, emitted, base, iter, callLen,
                   lastKind, handed, raised>>

\* lines 369, 377-382: six seconds pass (or the stop event is set) without
\* a magic word
SniffTimeout ==
    /\ pc = "sniff"
    /\ pc' = "closed"
    /\ UNCHANGED <<pieces, stream, rd, buf, frames, emitted, base, iter,
                   callLen, lastKind, handed, straddle, raised>>

(***************************************************************************)
(* Specifications                                                          *)
(***************************************************************************)
\* the worker from the sniff loop on
Init == InitCommon /\ pc = "sniff"

Next ==
    \/ Sniff
    \/ SniffTimeout
    \/ Read
    \/ NoMagic
    \/ WaitHeader
    \/ WaitBody
    \/ BadSync
    \/ Consume
    \/ EmitFrames

Spec == Init /\ [][Next]_vars

\* the decoder driven from an empty buffer: buf += chunk;
\* frames, buf = parse_buffer(buf)
InitParser == InitCommon /\ pc = "read"

NextParser ==
    \/ Read
    \/ NoMagic
    \/ WaitHeader
    \/ WaitBody
    \/ BadSync
    \/ Consume
    \/ EmitFrames

SpecParser == InitParser /\ [][NextParser]_vars

\* the decoder called once on one whole frame
InitDecode ==
    /\ pieces \in {<<p>> : p \in DecodePieces}
    /\ stream = StreamBytes(pieces, 1)
    /\ rd = 0
    /\ pc = "read"
    /\ buf = <<>>
    /\ frames = <<>>
    /\ emitted = <<>>
    /\ base = 0
    /\ iter = 0
    /\ callLen = 0
    /\ lastKind = "none"
    /\ handed = <<>>
    /\ straddle = FALSE
    /\ raised = FALSE

NextDecode ==
    \/ ReadAll
    \/ NoMagic
    \/ WaitHeader
    \/ Consume
    \/ EmitFrames

SpecDecode == InitDecode /\ [][NextDecode]_vars

\* the bytes read so far
Delivered == Slice(stream, 0, rd)

TypeOK ==
    /\ pc \in {"sniff", "read", "parse", "emit", "closed"}
    /\ rd \in 0..Len(stream)
    /\ buf = Slice(stream, base, rd)

(***************************************************************************)
(* The read loop on a stream without end: the bytes of stream, then the    *)
(* last piece of pieces again and again.  rd and base are kept below       *)
(* Len(stream) by counting modulo the length of that piece.                *)
(***************************************************************************)
PeriodStart == PieceStart(pieces, Len(pieces))
PeriodLen == Len(stream) - PeriodStart

Wrap(pos) ==
    IF pos < Len(stream) THEN pos
    ELSE PeriodStart + ((pos - PeriodStart) % PeriodLen)

\* the n bytes the port delivers from position pos on
Supply(pos, n) == [i \in 1..n |-> stream[Wrap(pos + i - 1) + 1]]

InitEndless ==
    /\ pieces \in EndlessSeqs
    /\ stream = StreamBytes(pieces, 1)
    /\ rd = 0
    /\ pc = "read"
    /\ buf = <<>>
    /\ frames = <<>>
    /\ emitted = <<>>
    /\ base = 0
    /\ iter = 0
    /\ callLen = 0
    /\ lastKind = "none"
    /\ handed = <<>>
    /\ straddle = FALSE
    /\ raised = FALSE

\* lines 391-396: c = read(); buf += c, and parse_buffer is entered.  The
\* frames of the pass before have been emitted and are dropped.
ReadEndless ==
    /\ pc = "read"
    /\ \E n \in {1, HEADER_SIZE} :
          /\ buf' = buf \o Supply(rd, n)
          /\ rd' = Wrap(rd + n)
    /\ frames' = <<>>
    /\ pc' = "parse"
    /\ UNCHANGED <<pieces, stream, emitted, base, iter, callLen, lastKind,
                   handed, straddle, raised>>

\* lines 84-109 and 398-399: one iteration of the while loop; the
\* iteration that breaks also returns, and the frames of the pass are
\* emitted
IterEndless ==
    /\ pc = "parse"
    /\ \E s \in {PBStep(buf)} : \E r \in {parse_frame(s.cand)} :
           /\ lastKind' = s.kind
           /\ IF s.kind = "consume" /\ r.raised
              THEN /\ raised' = TRUE
                   /\ pc' = "closed"
                   /\ UNCHANGED <<buf, base, frames>>
              ELSE /\ raised' = FALSE
                   /\ buf' = s.buf
                   /\ base' = Wrap(base + (Len(buf) - Len(s.buf)))
                   /\ frames' = IF s.kind = "consume" /\ ~r.none
                                THEN AppendFrame(frames,
                                        [off |-> Wrap(base + s.idx),
                                         len |-> Len(s.cand), fr |-> r.frame])
                                ELSE frames
                   /\ pc' = IF s.kind \in {"badlen", "consume"} THEN "parse"
                            ELSE "read"
    /\ UNCHANGED <<pieces, stream, rd, emitted, iter, callLen, handed,
                   straddle>>

NextEndless ==
    \/ ReadEndless
    \/ IterEndless

\* bytes keep arriving and the loop keeps running
SpecEndless ==
    InitEndless /\ [][NextEndless]_vars
        /\ WF_vars(ReadEndless) /\ WF_vars(IterEndless)

(***************************************************************************)
(* PeopleMotionDetector (IMS/detect.py:102-179).  The variables hold the   *)
(* state of this reader: buf is self.data_buffer, emitted the update_plot  *)
(* calls scheduled with root.after together with self.tracks at that time, *)
(* pc = "closed" the end of the read_serial thread.                        *)
(***************************************************************************)
\* lines 175-177 for a record one of whose velocity components is zero:
\* sqrt(velX**2 + velY**2) is then the magnitude of the other one
MotionState(velX, velY) ==
    LET speed == IF velX.mag >= velY.mag THEN velX.mag ELSE velY.mag
    IN  IF FltIsNaN(velX) \/ FltIsNaN(velY) THEN "Sitting"
        ELSE IF speed >= F32_ABOVE_THRESHOLD THEN "Moving"
        ELSE "Sitting"

\* lines 164-179: self.tracks[tid] = (posX, posY, state) per whole record
RECURSIVE TracksLoop(_, _, _, _)
TracksLoop(payload, i, count, tracks) ==
    IF i >= count THEN tracks
    ELSE LET off == i * TRACK_SIZE
             tid == UnpackWord(payload, off)
             entry == <<UnpackF32(payload, off + 4),
                        UnpackF32(payload, off + 8),
                        MotionState(UnpackF32(payload, off + 12),
                                    UnpackF32(payload, off + 16))>>
         IN  TracksLoop(payload, i + 1, count,
                [t \in DOMAIN tracks \cup {tid} |->
                    IF t = tid THEN entry ELSE tracks[t]])

\* PeopleMotionDetector.parse_targets
Detector_parse_targets(tracks, payload) ==
    TracksLoop(payload, 0, Len(payload) \div TRACK_SIZE, tracks)

\* lines 145-155: struct.unpack('<2I', ...) raises struct.error when fewer
\* than 8 bytes are left at offset; the payload slice is clamped
RECURSIVE DetectorTlvLoop(_, _, _, _, _)
DetectorTlvLoop(packet, offset, k, num_tlvs, tracks) ==
    IF k >= num_tlvs THEN [raised |-> FALSE, tracks |-> tracks]
    ELSE IF Len(Slice(packet, offset, offset + 8)) # 8
    THEN [raised |-> TRUE, tracks |-> tracks]
    ELSE LET tlv_type == UnpackU32(packet, offset)
             tlv_len == UnpackU32(packet, offset + 4)
             payload == IF tlv_len < 8 THEN <<>>
                        ELSE Slice(packet, offset + 8, offset + tlv_len)
         IN  DetectorTlvLoop(packet, offset + tlv_len, k + 1, num_tlvs,
                IF tlv_type = TRACK_TLV
                THEN Detector_parse_targets(tracks, payload)
                ELSE tracks)

\* PeopleMotionDetector.parse_frame (lines 140-157); tracks is cleared
\* first and update_plot is scheduled unless the loop raised
Detector_parse_frame(packet, num_tlvs) ==
    DetectorTlvLoop(packet, HEADER_SIZE, 0, num_tlvs, <<>>)

\* one iteration of the while loop of parse_stream (lines 119-138)
DetectorStep(b) ==
    LET idx == Find(b)
        total_len == UnpackU32(b, idx + TOTAL_LEN_OFFSET)
        num_tlvs == UnpackU32(b, idx + 32)
    IN  IF idx = -1 THEN [kind |-> "nomagic"]
        ELSE IF Len(b) < idx + HEADER_SIZE THEN [kind |-> "waithdr"]
        ELSE IF Len(b) < idx + total_len THEN [kind |-> "waitbody"]
        ELSE [kind |-> "packet", idx |-> idx,
              packet |-> Slice(b, idx, idx + total_len),
              num_tlvs |-> num_tlvs,
              rest |-> SliceFrom(b, idx + total_len)]

DetectorPieces ==
    {Piece(k) : k \in {"DV", "DM", "D0", "DH", "DR", "DZ", "DZ1", "DS", "NA"}}
DetectorSeqs == UNION {[1..n -> DetectorPieces] : n \in 1..MaxPieces}

InitDetector ==
    /\ pieces \in DetectorSeqs
    /\ stream = StreamBytes(pieces, 1)
    /\ rd = 0
    /\ pc = "read"
    /\ buf = <<>>
    /\ frames = <<>>
    /\ emitted = <<>>
    /\ base = 0
    /\ iter = 0
    /\ callLen = 0
    /\ lastKind = "none"
    /\ handed = <<>>
    /\ straddle = FALSE
    /\ raised = FALSE

\* lines 106-109: data = ser.read(4096); self.data_buffer.extend(data);
\* self.parse_stream()
DetectorRead == Read

\* lines 120-121, 123-124, 132-133: parse_stream returns
DetectorReturn ==
    /\ pc = "parse"
    /\ DetectorStep(buf).kind \in {"nomagic", "waithdr", "waitbody"}
    /\ lastKind' = DetectorStep(buf).kind
    /\ pc' = "read"
    /\ iter' = iter + 1
    /\ UNCHANGED <<pieces, stream, rd, buf, frames, emitted, base, callLen,
                   handed, straddle, raised>>

\* lines 135-138: the packet is parsed and deleted from the buffer; a
\* struct.error leaves parse_stream and ends read_serial (lines 110-111)
DetectorPacket ==
    /\ pc = "parse"
    /\ iter < MaxIter
    /\ LET s == DetectorStep(buf) IN
          /\ s.kind = "packet"
          /\ LET r == Detector_parse_frame(s.packet, s.num_tlvs) IN
                IF r.raised
                THEN /\ raised' = TRUE
                     /\ pc' = "closed"
                     /\ UNCHANGED <<buf, base, emitted>>
                ELSE /\ raised' = FALSE
                     /\ pc' = pc
                     /\ emitted' = Append(emitted,
                                      [off |-> base + s.idx,
                                       len |-> Len(s.packet),
                                       fr |-> r.tracks])
                     /\ buf' = s.rest
                     /\ base' = base + (Len(buf) - Len(s.rest))
    /\ iter' = iter + 1
    /\ lastKind' = "packet"
    /\ UNCHANGED <<pieces, stream, rd, frames, callLen, handed, straddle>>

NextDetector ==
    \/ DetectorRead
    \/ DetectorReturn
    \/ DetectorPacket

SpecDetector == InitDetector /\ [][NextDetector]_vars

(***************************************************************************)
(* FrameParser (radar_console_app/parser/frame_parser.py:12-86).  buf is   *)
(* self.buffer, frames the local list of the running parse call, emitted   *)
(* the frames returned by the calls so far.                                *)
(***************************************************************************)
\* FrameParser._parse_frame (lines 57-86): '<QIIIIIIII' needs 40 bytes,
\* else the struct.error is caught and None is returned.  header[2] is the
\* word at offset 12 and header[7] the word at offset 32; the coordinates
\* of the points are random and left out.
Console_parse_frame(frame_data) ==
    IF Len(Slice(frame_data, 0, HEADER_SIZE)) # HEADER_SIZE
    THEN [none |-> TRUE]
    ELSE LET num_detected_obj == UnpackU32(frame_data, 32)
         IN  [none |-> FALSE,
              frame |-> [frame_id |-> UnpackWord(frame_data, TOTAL_LEN_OFFSET),
                         num_points |-> IF num_detected_obj < 100
                                        THEN num_detected_obj ELSE 10]]

\* one test of the while condition and, if it holds, one run of the loop
\* body (lines 24-48)
ConsoleStep(b) ==
    LET start_idx == Find(b)
        b1 == IF start_idx > 0 THEN SliceFrom(b, start_idx) ELSE b
        packet_len == UnpackU32(b1, TOTAL_LEN_OFFSET)
    IN  IF start_idx < 0 THEN [kind |-> "nomagic", buf |-> b]
        ELSE IF Len(b1) < HEADER_SIZE THEN [kind |-> "waithdr", buf |-> b1]
        ELSE IF Len(b1) < packet_len THEN [kind |-> "waitbody", buf |-> b1]
        ELSE [kind |-> "frame", idx |-> start_idx,
              frame_data |-> Slice(b1, 0, packet_len),
              buf |-> SliceFrom(b1, packet_len)]

ConsolePieces ==
    {Piece(k) : k \in {"F0", "FP", "BAD0", "DS", "LONG", "BADBIG", "NA", "MG"}}
ConsoleSeqs == UNION {[1..n -> ConsolePieces] : n \in 1..MaxPieces}

InitConsole ==
    /\ pieces \in ConsoleSeqs
    /\ stream = StreamBytes(pieces, 1)
    /\ rd = 0
    /\ pc = "read"
    /\ buf = <<>>
    /\ frames = <<>>
    /\ emitted = <<>>
    /\ base = 0
    /\ iter = 0
    /\ callLen = 0
    /\ lastKind = "none"
    /\ handed = <<>>
    /\ straddle = FALSE
    /\ raised = FALSE

\* lines 17-18: parse(data) is entered, self.buffer.extend(data)
ConsoleParse == Read

\* the while condition fails or the body breaks (lines 24, 31-32, 37-39)
ConsoleBreak ==
    /\ pc = "parse"
    /\ LET s == ConsoleStep(buf) IN
          /\ s.kind \in {"nomagic", "waithdr", "waitbody"}
          /\ lastKind' = s.kind
          /\ buf' = s.buf
          /\ base' = base + (Len(buf) - Len(s.buf))
    /\ iter' = iter + 1
    /\ pc' = "emit"
    /\ UNCHANGED <<pieces, stream, rd, frames, emitted, callLen, handed,
                   straddle, raised>>

\* lines 42-48: the frame is cut off the buffer and parsed
ConsoleFrame ==
    /\ pc = "parse"
    /\ iter < MaxIter
    /\ LET s == ConsoleStep(buf)
           r == Console_parse_frame(s.frame_data)
       IN  /\ s.kind = "frame"
           /\ buf' = s.buf
           /\ base' = base + (Len(buf) - Len(s.buf))
           /\ frames' = IF r.none THEN frames
                        ELSE Append(frames, [off |-> base + s.idx,
                                             len |-> Len(s.frame_data),
                                             fr |-> r.frame])
    /\ iter' = iter + 1
    /\ lastKind' = "frame"
    /\ UNCHANGED <<pieces, stream, rd, pc, emitted, callLen, handed,
                   straddle, raised>>

\* line 50: return frames
ConsoleReturn == EmitFrames

NextConsole ==
    \/ ConsoleParse
    \/ ConsoleBreak
    \/ ConsoleFrame
    \/ ConsoleReturn

SpecConsole == InitConsole /\ [][NextConsole]_vars

(***************************************************************************)
(* The readers that return one frame per call: RadarHandler.parse_frame    *)
(* (Prototype/backend/radar_handler.py:42-93), called from start_streaming *)
(* (lines 95-102), and RadarParser.read_frame (Working Code/               *)
(* RADAR_STREAM3D.py:28-77), called from main (lines 123-126).  pc names   *)
(* the calling loop, buf is self.buffer, emitted the frames returned so    *)
(* far; a call is one step.  Both read the TLV length as the length of the *)
(* TLV with its sub-header.                                                *)
(***************************************************************************)
\* the loop over the points of a type-1 TLV (radar_handler.py:78-86,
\* RADAR_STREAM3D.py:67-70): struct.unpack("<ffff", ...) raises
\* struct.error when the slice at off has fewer than 16 bytes
RECURSIVE ReaderPoints(_, _, _, _, _)
ReaderPoints(b, data_start, j, num_points, points) ==
    LET off == data_start + j * POINT_STRIDE IN
    IF j >= num_points THEN [raised |-> FALSE, points |-> points]
    ELSE IF Len(Slice(b, off, off + POINT_STRIDE)) # POINT_STRIDE
    THEN [raised |-> TRUE, points |-> points]
    ELSE ReaderPoints(b, data_start, j + 1, num_points,
            Append(points, <<UnpackF32(b, off), UnpackF32(b, off + 4),
                             UnpackF32(b, off + 8), UnpackF32(b, off + 12)>>))

\* the loop over the TLVs (radar_handler.py:68-88, RADAR_STREAM3D.py:54-72);
\* short_break is the test tlv_len < 8 that only read_frame has
RECURSIVE ReaderTlvLoop(_, _, _, _, _, _, _)
ReaderTlvLoop(b, frame_end, idx, k, num_tlvs, points, short_break) ==
    IF k >= num_tlvs THEN [raised |-> FALSE, points |-> points]
    ELSE IF idx + 8 > frame_end THEN [raised |-> FALSE, points |-> points]
    ELSE LET tlv_type == UnpackU32(b, idx)
             tlv_len == UnpackU32(b, idx + 4)
             r == IF tlv_type = TLV_POINT_CLOUD
                  THEN ReaderPoints(b, idx + 8, 0,
                                    (tlv_len - 8) \div POINT_STRIDE, points)
                  ELSE [raised |-> FALSE, points |-> points]
         IN  IF short_break /\ tlv_len < 8
             THEN [raised |-> FALSE, points |-> points]
             ELSE IF r.raised THEN r
             ELSE ReaderTlvLoop(b, frame_end, idx + tlv_len, k + 1, num_tlvs,
                                r.points, short_break)

\* one call on the buffer b, after the new bytes were appended
\* (radar_handler.py:47-93, RADAR_STREAM3D.py:32-77)
ReadFrame(b, short_break) ==
    LET i == Find(b)
        packet_len == UnpackU32(b, i + TOTAL_LEN_OFFSET)
        r == ReaderTlvLoop(b, i + packet_len, i + HEADER_SIZE, 0,
                           UnpackU32(b, i + 32), <<>>, short_break)
    IN  IF i < 0 THEN [kind |-> "none"]
        ELSE IF i + HEADER_SIZE > Len(b) THEN [kind |-> "none"]
        ELSE IF i + packet_len > Len(b) THEN [kind |-> "none"]
        ELSE IF r.raised THEN [kind |-> "raised"]
        ELSE [kind |-> "frame", i |-> i, packet_len |-> packet_len,
              frame_num |-> UnpackWord(b, i + 20), points |-> r.points,
              buf |-> SliceFrom(b, i + packet_len)]

\* self.buffer += read(in_waiting) with n bytes waiting, then the scan
OneFrameCall(n, short_break) ==
    LET b1 == buf \o Slice(stream, rd, rd + n)
        r == ReadFrame(b1, short_break)
    IN  /\ rd' = rd + n
        /\ callLen' = Len(b1)
        /\ lastKind' = r.kind
        /\ IF r.kind = "frame"
           THEN /\ emitted' = Append(emitted,
                                [off |-> base + r.i, len |-> r.packet_len,
                                 fr |-> [frame_num |-> r.frame_num,
                                         points |-> r.points]])
                /\ buf' = r.buf
                /\ base' = base + (Len(b1) - Len(r.buf))
                /\ UNCHANGED <<pc, raised>>
           ELSE IF r.kind = "raised"
           THEN /\ pc' = "closed"
                /\ raised' = TRUE
                /\ buf' = b1
                /\ UNCHANGED <<emitted, base>>
           ELSE /\ buf' = b1
                /\ UNCHANGED <<pc, raised, emitted, base>>
        /\ UNCHANGED <<pieces, stream, frames, handed, straddle>>

\* calls of read_frame in a row that find no byte waiting
MaxCalls == 4

\* the numbers of bytes a call may find waiting when rem are still to come
WaitingSizes(rem) ==
    {n \in 1..rem : n = Len(MAGIC_WORD) \/ n = HEADER_SIZE \/ n = rem}

\* RadarHandler.parse_frame with bytes waiting (with none it returns None
\* at line 44 and nothing changes)
HandlerCall ==
    /\ pc = "start_streaming"
    /\ \E n \in WaitingSizes(Len(stream) - rd) : OneFrameCall(n, FALSE)
    /\ iter' = 0

\* RadarParser.read_frame with n >= 0 bytes waiting
Stream3dCall ==
    /\ pc = "main"
    /\ \/ /\ \E n \in WaitingSizes(Len(stream) - rd) : OneFrameCall(n, TRUE)
          /\ iter' = 0
       \/ /\ iter < MaxCalls
          /\ OneFrameCall(0, TRUE)
          /\ iter' = iter + 1

OneFramePieces ==
    {Piece(k) : k \in {"SP", "F0", "FP", "RX", "BAD0", "DS", "LONG", "NA", "MG"}}
OneFrameSeqs == UNION {[1..n -> OneFramePieces] : n \in 1..MaxPieces}

InitOneFrame ==
    /\ pieces \in OneFrameSeqs
    /\ stream = StreamBytes(pieces, 1)
    /\ rd = 0
    /\ pc \in {"start_streaming", "main"}
    /\ buf = <<>>
    /\ frames = <<>>
    /\ emitted = <<>>
    /\ base = 0
    /\ iter = 0
    /\ callLen = 0
    /\ lastKind = "none"
    /\ handed = <<>>
    /\ straddle = FALSE
    /\ raised = FALSE

NextOneFrame ==
    \/ HandlerCall
    \/ Stream3dCall

SpecOneFrame == InitOneFrame /\ [][NextOneFrame]_vars

(***************************************************************************)
(* PeopleMotionDetector, the reader thread and the UI thread               *)
(* (IMS/detect.py:96-199).  The two threads share self.tracks without a    *)
(* lock; a step of the model is one dict operation of one thread.  The     *)
(* variables hold: buf self.data_buffer; pc the position of the reader     *)
(* thread ("read", "parse", "fill", "closed"); frames the records of the   *)
(* running parse_frame that are not stored yet; handed self.tracks as the  *)
(* dict keeps it, in insertion order; callLen the update_plot callbacks    *)
(* queued by root.after and not run yet; lastKind the position of the UI   *)
(* thread ("idle", "plot"); base and iter the size the dict iterator of    *)
(* line 190 was created with and its position; emitted the update_plot    *)
(* runs so far, each with the items its loop body saw.                     *)
(***************************************************************************)
\* lines 164-179 as the sequence of stores self.tracks[tid] = ... they make
RECURSIVE TrackStores(_, _, _)
TrackStores(payload, i, count) ==
    IF i >= count THEN <<>>
    ELSE LET off == i * TRACK_SIZE
         IN  <<[tid |-> UnpackWord(payload, off),
                entry |-> <<UnpackF32(payload, off + 4),
                            UnpackF32(payload, off + 8),
                            MotionState(UnpackF32(payload, off + 12),
                                        UnpackF32(payload, off + 16))>>]>>
                 \o TrackStores(payload, i + 1, count)

\* lines 145-155 as the sequence of stores the TLV loop makes, and whether
\* struct.unpack('<2I', ...) raised after them
RECURSIVE FrameStores(_, _, _, _)
FrameStores(packet, offset, k, num_tlvs) ==
    IF k >= num_tlvs THEN [raised |-> FALSE, stores |-> <<>>]
    ELSE IF Len(Slice(packet, offset, offset + 8)) # 8
    THEN [raised |-> TRUE, stores |-> <<>>]
    ELSE LET tlv_type == UnpackU32(packet, offset)
             tlv_len == UnpackU32(packet, offset + 4)
             payload == IF tlv_len < 8 THEN <<>>
                        ELSE Slice(packet, offset + 8, offset + tlv_len)
             here == IF tlv_type = TRACK_TLV
                     THEN TrackStores(payload, 0, Len(payload) \div TRACK_SIZE)
                     ELSE <<>>
             more == FrameStores(packet, offset + tlv_len, k + 1, num_tlvs)
         IN  [raised |-> more.raised, stores |-> here \o more.stores]

\* d[tid] = entry on a dict kept in insertion order: a key already present
\* keeps its place
DictStore(d, st) ==
    IF \E i \in 1..Len(d) : d[i].tid = st.tid
    THEN [i \in 1..Len(d) |-> IF d[i].tid = st.tid THEN st ELSE d[i]]
    ELSE Append(d, st)

TracksPieces == {Piece(k) : k \in {"DV", "DM", "D0", "DH"}}
TracksSeqs == UNION {[1..n -> TracksPieces] : n \in 1..MaxPieces}

\* lines 28-30 and the state when start_reading has started the thread
InitTracks ==
    /\ pieces \in TracksSeqs
    /\ stream = StreamBytes(pieces, 1)
    /\ rd = 0
    /\ pc = "read"
    /\ buf = <<>>
    /\ frames = <<>>
    /\ emitted = <<>>
    /\ base = 0
    /\ iter = 0
    /\ callLen = 0
    /\ lastKind = "idle"
    /\ handed = <<>>
    /\ straddle = FALSE
    /\ raised = FALSE

\* reader thread, lines 106-109: a read that returns data
TracksRead ==
    /\ pc = "read"
    /\ \E n \in WaitingSizes(Len(stream) - rd) :
          /\ buf' = buf \o Slice(stream, rd, rd + n)
          /\ rd' = rd + n
    /\ pc' = "parse"
    /\ UNCHANGED <<pieces, stream, frames, emitted, base, iter, callLen,
                   lastKind, handed, straddle, raised>>

\* reader thread, lines 120-133: parse_stream returns
TracksReturn ==
    /\ pc = "parse"
    /\ DetectorStep(buf).kind \in {"nomagic", "waithdr", "waitbody"}
    /\ pc' = "read"
    /\ UNCHANGED <<pieces, stream, rd, buf, frames, emitted, base, iter,
                   callLen, lastKind, handed, straddle, raised>>

\* reader thread, lines 135-136 and 142-143: parse_frame is entered and
\* clears self.tracks
TracksClear ==
    /\ pc = "parse"
    /\ DetectorStep(buf).kind = "packet"
    /\ handed' = <<>>
    /\ frames' = FrameStores(DetectorStep(buf).packet, HEADER_SIZE, 0,
                             DetectorStep(buf).num_tlvs).stores
    /\ pc' = "fill"
    /\ UNCHANGED <<pieces, stream, rd, buf, emitted, base, iter, callLen,
                   lastKind, straddle, raised>>

\* reader thread, line 179: the next record is stored
TracksStore ==
    /\ pc = "fill"
    /\ frames # <<>>
    /\ handed' = DictStore(handed, Head(frames))
    /\ frames' = Tail(frames)
    /\ UNCHANGED <<pieces, stream, rd, pc, buf, emitted, base, iter, callLen,
                   lastKind, straddle, raised>>

\* reader thread, lines 157 and 138: update_plot is queued for the UI
\* thread and the packet is deleted from the buffer
TracksAfter ==
    /\ pc = "fill"
    /\ frames = <<>>
    /\ ~FrameStores(DetectorStep(buf).packet, HEADER_SIZE, 0,
                    DetectorStep(buf).num_tlvs).raised
    /\ callLen' = callLen + 1
    /\ buf' = DetectorStep(buf).rest
    /\ pc' = "parse"
    /\ UNCHANGED <<pieces, stream, rd, frames, emitted, base, iter, lastKind,
                   handed, straddle, raised>>

\* reader thread, lines 147 and 110-111: the struct.error ends the thread
TracksRaise ==
    /\ pc = "fill"
    /\ frames = <<>>
    /\ FrameStores(DetectorStep(buf).packet, HEADER_SIZE, 0,
                   DetectorStep(buf).num_tlvs).raised
    /\ raised' = TRUE
    /\ pc' = "closed"
    /\ UNCHANGED <<pieces, stream, rd, buf, frames, emitted, base, iter,
                   callLen, lastKind, handed, straddle>>

\* UI thread, lines 185-190: a queued update_plot starts and creates the
\* iterator of self.tracks.items()
PlotBegin ==
    /\ lastKind = "idle"
    /\ callLen > 0
    /\ callLen' = callLen - 1
    /\ base' = Len(handed)
    /\ iter' = 0
    /\ emitted' = Append(emitted, [seen |-> <<>>, done |-> FALSE,
                                   error |-> FALSE])
    /\ lastKind' = "plot"
    /\ UNCHANGED <<pieces, stream, rd, pc, buf, frames, handed, straddle,
                   raised>>

\* UI thread, line 190: the iterator yields the next item, lines 192-199
\* run on it
PlotItem ==
    /\ lastKind = "plot"
    /\ base = Len(handed)
    /\ iter < Len(handed)
    /\ emitted' = [emitted EXCEPT ![Len(emitted)].seen =
                        Append(@, handed[iter + 1])]
    /\ iter' = iter + 1
    /\ UNCHANGED <<pieces, stream, rd, pc, buf, frames, base, callLen,
                   lastKind, handed, straddle, raised>>

\* UI thread, lines 190 and 201-210: the iterator is exhausted, the plot is
\* drawn
PlotDraw ==
    /\ lastKind = "plot"
    /\ base = Len(handed)
    /\ iter >= Len(handed)
    /\ emitted' = [emitted EXCEPT ![Len(emitted)].done = TRUE]
    /\ lastKind' = "idle"
    /\ UNCHANGED <<pieces, stream, rd, pc, buf, frames, base, iter, callLen,
                   handed, straddle, raised>>

\* UI thread, line 190: the dict has another size than when the iterator
\* was created: RuntimeError ("dictionary changed size during iteration"),
\* which ends this update_plot; the Tk main loop goes on
PlotError ==
    /\ lastKind = "plot"
    /\ base # Len(handed)
    /\ emitted' = [emitted EXCEPT ![Len(emitted)].done = TRUE,
                                  ![Len(emitted)].error = TRUE]
    /\ lastKind' = "idle"
    /\ UNCHANGED <<pieces, stream, rd, pc, buf, frames, base, iter, callLen,
                   handed, straddle, raised>>

NextTracks ==
    \/ TracksRead
    \/ TracksReturn
    \/ TracksClear
    \/ TracksStore
    \/ TracksAfter
    \/ TracksRaise
    \/ PlotBegin
    \/ PlotItem
    \/ PlotDraw
    \/ PlotError

SpecTracks == InitTracks /\ [][NextTracks]_vars

(***************************************************************************)
(* RadarFrameParser (Working Code/RADAR2D.py:12-148).  buf is the fixed    *)
(* array self.byte_buffer, all its cells, base is self.byte_buffer_length, *)
(* emitted the frames returned by read_and_parse_frame so far, lastKind    *)
(* the way the last call returned, handed the places where the last call   *)
(* raised an exception, raised whether the handler of line 146 ran in it,  *)
(* iter the calls in a row that found no byte waiting.                     *)
(***************************************************************************)
\* line 18: np.zeros(2**15, dtype=np.uint8)
BYTE_BUFFER_SIZE == 32768

\* lines 95-99: the bytes of raw are written from the write index on; when
\* the index reaches the end of the array it returns to 0 and the bytes
\* that follow overwrite the array from its start
RECURSIVE Radar2dStore(_, _, _)
Radar2dStore(arr, length, raw) ==
    LET room == BYTE_BUFFER_SIZE - length
    IN  IF Len(raw) < room
        THEN [arr |-> SubSeq(arr, 1, length) \o raw
                        \o SubSeq(arr, length + Len(raw) + 1,
                                  BYTE_BUFFER_SIZE),
              length |-> length + Len(raw)]
        ELSE Radar2dStore(SubSeq(arr, 1, length) \o SubSeq(raw, 1, room), 0,
                          SubSeq(raw, room + 1, Len(raw)))

\* lines 101-105 with check_magic_word (lines 48-52): the least i in
\* range(byte_buffer_length - 8) at which the magic word stands, or -1 for
\* None
Radar2dMagic(arr, length) ==
    LET hits == {i \in 0..(length - 9) :
                    \A k \in 1..8 : arr[i + k] = MAGIC_WORD[k]}
    IN  IF hits = {} THEN -1
        ELSE CHOOSE i \in hits : \A j \in hits : i <= j

\* parse_frame_header (lines 54-65) on data = byte_buffer[magic_idx:]: a
\* slice of fewer than 4 bytes makes struct.unpack raise, the bare except
\* returns None
Radar2dHeader(arr, magic_idx) ==
    IF BYTE_BUFFER_SIZE - magic_idx < 36 THEN [none |-> TRUE]
    ELSE [none |-> FALSE,
          packet_length |-> UnpackU32(arr, magic_idx + 12),
          frame_num |-> UnpackWord(arr, magic_idx + 20),
          num_tlvs |-> UnpackU32(arr, magic_idx + 32),
          header_len |-> IF UnpackU32(arr, magic_idx + 8) > 16777221
                         THEN 40 ELSE 36]

\* parse_detected_points (lines 72-88) on data = byte_buffer[start:end]:
\* the records decoded and the records whose struct.error was passed over
Radar2dPoints(start, tlv_length) ==
    LET end == IF tlv_length >= BYTE_BUFFER_SIZE THEN BYTE_BUFFER_SIZE
               ELSE Min2(start + tlv_length - 8, BYTE_BUFFER_SIZE)
        size == IF end > start THEN end - start ELSE 0
        num_points == IF tlv_length < 8 THEN 0 ELSE (tlv_length - 8) \div 16
        decoded == Min2(num_points, size \div 16)
    IN  [points |-> decoded, skipped |-> num_points - decoded]

\* the number of 8-byte blocks of zero cells that start at idx; each is a
\* TLV of type 0 and length 0, over which lines 127-134 advance idx by 8
ZeroTlvs(arr, idx) ==
    LET nonzero == {c \in (idx + 1)..BYTE_BUFFER_SIZE : arr[c] # 0}
        first == CHOOSE c \in nonzero : \A d \in nonzero : c <= d
    IN  IF nonzero = {} THEN (BYTE_BUFFER_SIZE - idx) \div 8
        ELSE (first - 1 - idx) \div 8

\* lines 127-134: parse_tlv (lines 67-70) raises struct.error when fewer
\* than 8 bytes of the array are left at idx; an idx beyond the array is
\* kept as BYTE_BUFFER_SIZE; a run of zero TLVs is passed over in one step
RECURSIVE Radar2dTlvLoop(_, _, _, _, _, _)
Radar2dTlvLoop(arr, idx, k, num_tlvs, points, skipped) ==
    IF k >= num_tlvs
    THEN [raised |-> FALSE, points |-> points, skipped |-> skipped]
    ELSE IF idx + 8 > BYTE_BUFFER_SIZE
    THEN [raised |-> TRUE, points |-> points, skipped |-> skipped]
    ELSE LET tlv_type == UnpackU32(arr, idx)
             tlv_length == UnpackU32(arr, idx + 4)
             pts == IF tlv_type = 1 THEN Radar2dPoints(idx + 8, tlv_length)
                    ELSE [points |-> 0, skipped |-> 0]
             next == IF tlv_length >= BYTE_BUFFER_SIZE THEN BYTE_BUFFER_SIZE
                     ELSE Min2(idx + 8 + tlv_length, BYTE_BUFFER_SIZE)
             run == Min2(ZeroTlvs(arr, idx), num_tlvs - k)
         IN  IF tlv_type = 0 /\ tlv_length = 0
             THEN Radar2dTlvLoop(arr, idx + 8 * run, k + run, num_tlvs,
                                 points, skipped)
             ELSE Radar2dTlvLoop(arr, next, k + 1, num_tlvs,
                                 points + pts.points, skipped + pts.skipped)

\* read_and_parse_frame (lines 90-148) from line 101 on: the array and the
\* length it leaves, how it returned, the frame, and where it raised
Radar2dParse(arr, length) ==
    LET magic_idx == Radar2dMagic(arr, length)
        header == Radar2dHeader(arr, magic_idx)
        tlvs == Radar2dTlvLoop(arr, magic_idx + header.header_len, 0,
                               header.num_tlvs, 0, 0)
        remain == length - (magic_idx + header.packet_length)
        same == [arr |-> arr, length |-> length, exc |-> {}]
    IN  IF magic_idx < 0 THEN [kind |-> "nomagic"] @@ same
        ELSE IF header.none
        THEN [kind |-> "noheader", arr |-> arr, length |-> length,
              exc |-> {"parse_frame_header"}]
        ELSE IF length < magic_idx + header.packet_length
        THEN [kind |-> "wait"] @@ same
        ELSE IF tlvs.raised
        THEN [kind |-> "except", arr |-> arr, length |-> 0,
              exc |-> {"parse_tlv"}
                        \cup IF tlvs.skipped > 0
                             THEN {"parse_detected_points"} ELSE {}]
        ELSE [kind |-> "frame",
              arr |-> IF remain > 0
                      THEN SubSeq(arr, magic_idx + header.packet_length + 1,
                                  length)
                               \o SubSeq(arr, remain + 1, BYTE_BUFFER_SIZE)
                      ELSE arr,
              length |-> IF remain > 0 THEN remain ELSE 0,
              frame |-> [frame_num |-> header.frame_num,
                         points |-> tlvs.points],
              exc |-> IF tlvs.skipped > 0
                      THEN {"parse_detected_points"} ELSE {}]

\* the numbers of bytes a call may find waiting: a run of noise comes in
\* one read
Radar2dSizes ==
    IF rd = 0 /\ pieces[1].k = "NZ" THEN {pieces[1].n}
    ELSE {n \in 1..(Len(stream) - rd) : n = 16 \/ n = Len(stream) - rd}

\* a call that finds n bytes waiting, n = 0 for none
Radar2dCall(n) ==
    LET raw == Slice(stream, rd, rd + n)
        stored == Radar2dStore(buf, base, raw)
        r == Radar2dParse(stored.arr, stored.length)
    IN  /\ pc = "main"
        /\ rd' = rd + n
        /\ iter' = IF n = 0 THEN iter + 1 ELSE 0
        /\ buf' = r.arr
        /\ base' = r.length
        /\ lastKind' = r.kind
        /\ handed' = r.exc
        /\ raised' = (r.kind = "except")
        /\ emitted' = IF r.kind = "frame" THEN Append(emitted, r.frame)
                      ELSE emitted
        /\ callLen' = stored.length
        /\ UNCHANGED <<pieces, stream, pc, frames, straddle>>

\* lines 92-94: bytes are waiting
Radar2dRead == \E n \in Radar2dSizes : Radar2dCall(n)

\* line 93: count is 0
Radar2dIdle == iter < MaxCalls /\ Radar2dCall(0)

Radar2dNoise == {[k |-> "NZ", n |-> n] : n \in {32700, 32733}}
Radar2dPieces == {Piece(k) : k \in {"SP", "RX", "T2", "BAD0"}}
\* frames read into the empty array, or one frame after a run of noise
\* that has filled the array almost to its end
Radar2dSeqs ==
    UNION {[1..n -> Radar2dPieces] : n \in 1..MaxPieces}
        \cup {<<z, f>> : z \in Radar2dNoise, f \in Radar2dPieces}

InitRadar2d ==
    /\ pieces \in Radar2dSeqs
    /\ stream = StreamBytes(pieces, 1)
    /\ rd = 0
    /\ pc = "main"
    /\ buf = SubSeq([c \in 1..BYTE_BUFFER_SIZE |-> 0], 1, BYTE_BUFFER_SIZE)
    /\ frames = <<>>
    /\ emitted = <<>>
    /\ base = 0
    /\ iter = 0
    /\ callLen = 0
    /\ lastKind = "none"
    /\ handed = {}
    /\ straddle = FALSE
    /\ raised = FALSE

NextRadar2d ==
    \/ Radar2dRead
    \/ Radar2dIdle

SpecRadar2d == InitRadar2d /\ [][NextRadar2d]_vars

(***************************************************************************)
(* MainWindow._on_frame (IMS/Main.py:1131-1146) behind the read loop of    *)
(* SerialWorker.run.  buf is the local buf of the read loop, frames the    *)
(* frames emitted with sig.frame and not yet delivered to the slot (Qt     *)
(* queues them in order), handed is self.persons, a map from target id to  *)
(* the PersonState of that id, emitted the frames _on_frame has handled.   *)
(***************************************************************************)
\* PersonState.update (lines 231-247): x, y and z are taken from the
\* record; height, in_hazard and fall are computed from them, from the
\* points of the frame and from the zone, and from nothing kept before
PersonState(t) == [tid |-> t.id, x |-> t.x, y |-> t.y, z |-> t.z]

\* lines 1140-1143 for one target; this keeps the first record of an id
PersonUpdate_KeepFirst(persons, t) ==
    IF t.id \in DOMAIN persons THEN persons
    ELSE [i \in DOMAIN persons \cup {t.id} |->
            IF i = t.id THEN PersonState(t) ELSE persons[i]]

\* lines 1140-1143 for one target: the PersonState of its id is created
\* when missing, then updated
PersonUpdate(persons, t) ==
    [i \in DOMAIN persons \cup {t.id} |->
        IF i = t.id THEN PersonState(t) ELSE persons[i]]

\* lines 1139-1143: for t in frame.targets
RECURSIVE PersonsLoop(_, _, _)
PersonsLoop(persons, targets, i) ==
    IF i > Len(targets) THEN persons
    ELSE PersonsLoop(PersonUpdate(persons, targets[i]), targets, i + 1)

\* lines 1138-1146: the loop, then every id that is not in active_ids is
\* deleted
on_frame(persons, frame) ==
    LET active_ids == {frame.targets[i].id : i \in 1..Len(frame.targets)}
        updated == PersonsLoop(persons, frame.targets, 1)
    IN  [i \in DOMAIN updated \cap active_ids |-> updated[i]]

\* the frames of a parse_buffer result
RECURSIVE FramesOf(_, _)
FramesOf(fs, i) ==
    IF i > Len(fs) THEN <<>> ELSE <<fs[i].fr>> \o FramesOf(fs, i + 1)

PersonNames == {"A", "A2", "B"}
OnFramePieces ==
    {[k |-> "TL", type |-> TLV_TARGET_LIST, stride |-> STRIDE_LITE,
      recs |-> r, pad |-> 0] :
        r \in UNION {[1..n -> PersonNames] : n \in 0..MaxRecs}}
OnFrameSeqs == UNION {[1..n -> OnFramePieces] : n \in 1..MaxPieces}

InitOnFrame ==
    /\ pieces \in OnFrameSeqs
    /\ stream = StreamBytes(pieces, 1)
    /\ rd = 0
    /\ pc = "read"
    /\ buf = <<>>
    /\ frames = <<>>
    /\ emitted = <<>>
    /\ base = 0
    /\ iter = 0
    /\ callLen = 0
    /\ lastKind = "none"
    /\ handed = <<>>
    /\ straddle = FALSE
    /\ raised = FALSE

\* Main.py:389-399, one iteration of the read loop: buf += chunk;
\* frames, buf = self.parser.parse_buffer(buf); every frame is emitted
WorkerLoop ==
    /\ pc = "read"
    /\ \E n \in WaitingSizes(Len(stream) - rd) :
          LET r == parse_buffer(buf \o Slice(stream, rd, rd + n))
          IN  /\ rd' = rd + n
              /\ buf' = r.buf
              /\ frames' = frames \o FramesOf(r.frames, 1)
    /\ UNCHANGED <<pieces, stream, pc, emitted, base, iter, callLen,
                   lastKind, handed, straddle, raised>>

\* MainWindow._on_frame on the oldest frame not delivered yet
OnFrame ==
    /\ frames # <<>>
    /\ handed' = on_frame(handed, Head(frames))
    /\ emitted' = Append(emitted, Head(frames))
    /\ frames' = Tail(frames)
    /\ lastKind' = "_on_frame"
    /\ UNCHANGED <<pieces, stream, rd, pc, buf, base, iter, callLen,
                   straddle, raised>>

NextOnFrame ==
    \/ WorkerLoop
    \/ OnFrame

SpecOnFrame == InitOnFrame /\ [][NextOnFrame]_vars

(***************************************************************************)
(* RadarController (radar_ui_app/controller/radar_controller.py:15-76)     *)
(* with the reader thread of SerialManager and the FrameParser of          *)
(* radar_ui_app/parser/frame_parser.py.  pc is "streaming" when            *)
(* is_streaming is true and the reader thread runs, "stopped" otherwise;   *)
(* frames holds the chunks emitted with data_received and not delivered to *)
(* process_incoming_data yet; buf is parser.leftover_data, handed is       *)
(* session_data, iter is frame_count, emitted the lists emitted with       *)
(* data_updated, lastKind what the last process_incoming_data did.         *)
(***************************************************************************)
POINT_SIZE == 20

\* frame_parser.py:34-48: one point per 20-byte segment, five floats
RECURSIVE UiPoints(_, _, _)
UiPoints(data, i, num_points) ==
    IF i >= num_points THEN <<>>
    ELSE <<[x |-> UnpackF32(data, i * POINT_SIZE),
            y |-> UnpackF32(data, i * POINT_SIZE + 4),
            z |-> UnpackF32(data, i * POINT_SIZE + 8),
            velocity |-> UnpackF32(data, i * POINT_SIZE + 12),
            intensity |-> UnpackF32(data, i * POINT_SIZE + 16)]>>
            \o UiPoints(data, i + 1, num_points)

\* FrameParser.parse (frame_parser.py:14-52); the timestamp is left out
Ui_parse(leftover_data, raw_data) ==
    LET data_to_parse == leftover_data \o raw_data
        num_points == Len(data_to_parse) \div POINT_SIZE
    IN  [leftover_data |-> SliceFrom(data_to_parse, num_points * POINT_SIZE),
         all_points |-> UiPoints(data_to_parse, 0, num_points)]

\* lines 71-73: pt['frame_id'] = self.frame_count
WithFrameId(points, frame_id) ==
    [i \in 1..Len(points) |-> points[i] @@ [frame_id |-> frame_id]]

\* process_incoming_data without the test of lines 65-66
process_incoming_data_Always(c, raw_data) ==
    LET p == Ui_parse(c.leftover_data, raw_data)
        pts == WithFrameId(p.all_points, c.frame_count + 1)
    IN  IF p.all_points = <<>>
        THEN [kind |-> "nothing", leftover_data |-> p.leftover_data,
              frame_count |-> c.frame_count,
              session_data |-> c.session_data, data_updated |-> <<>>]
        ELSE [kind |-> "points", leftover_data |-> p.leftover_data,
              frame_count |-> c.frame_count + 1,
              session_data |-> c.session_data \o pts,
              data_updated |-> <<pts>>]

\* RadarController.process_incoming_data (lines 62-76) on the controller
\* state c
process_incoming_data(c, raw_data) ==
    IF ~c.is_streaming
    THEN [kind |-> "ignored", leftover_data |-> c.leftover_data,
          frame_count |-> c.frame_count, session_data |-> c.session_data,
          data_updated |-> <<>>]
    ELSE process_incoming_data_Always(c, raw_data)

\* the numbers of bytes the reader may find waiting when rem are to come:
\* a point and 4 bytes more, or all of them
ReaderSizes(rem) == {n \in 1..rem : n = POINT_SIZE + 4 \/ n = rem}

ControllerPieces == {Piece(k) : k \in {"FP", "NA"}}
ControllerSeqs == UNION {[1..n -> ControllerPieces] : n \in 1..MaxPieces}

\* lines 15-28
InitController ==
    /\ pieces \in ControllerSeqs
    /\ stream = StreamBytes(pieces, 1)
    /\ rd = 0
    /\ pc = "stopped"
    /\ buf = <<>>
    /\ frames = <<>>
    /\ emitted = <<>>
    /\ base = 0
    /\ iter = 0
    /\ callLen = 0
    /\ lastKind = "none"
    /\ handed = <<>>
    /\ straddle = FALSE
    /\ raised = FALSE

\* RadarController.start_streaming (lines 46-53) when not streaming
StartStreaming ==
    /\ pc = "stopped"
    /\ handed' = <<>>
    /\ iter' = 0
    /\ pc' = "streaming"
    /\ UNCHANGED <<pieces, stream, rd, buf, frames, emitted, base, callLen,
                   lastKind, straddle, raised>>

\* RadarController.stop_streaming (lines 55-60) when streaming;
\* stop_reading waits for the reader thread to end
StopStreaming ==
    /\ pc = "streaming"
    /\ pc' = "stopped"
    /\ UNCHANGED <<pieces, stream, rd, buf, frames, emitted, base, iter,
                   callLen, lastKind, handed, straddle, raised>>

\* SerialReader.run (serial_manager.py:25-28): the bytes waiting are read
\* and emitted; the signal is queued for the thread of the controller
ReaderEmit ==
    /\ pc = "streaming"
    /\ \E n \in ReaderSizes(Len(stream) - rd) :
          /\ frames' = Append(frames, Slice(stream, rd, rd + n))
          /\ rd' = rd + n
    /\ UNCHANGED <<pieces, stream, pc, buf, emitted, base, iter, callLen,
                   lastKind, handed, straddle, raised>>

\* the oldest queued chunk is delivered to process_incoming_data
ProcessIncoming ==
    /\ frames # <<>>
    /\ LET r == process_incoming_data(
                    [is_streaming |-> pc = "streaming",
                     leftover_data |-> buf, frame_count |-> iter,
                     session_data |-> handed], Head(frames))
       IN  /\ buf' = r.leftover_data
           /\ iter' = r.frame_count
           /\ handed' = r.session_data
           /\ emitted' = emitted \o r.data_updated
           /\ lastKind' = r.kind
    /\ frames' = Tail(frames)
    /\ UNCHANGED <<pieces, stream, rd, pc, base, callLen, straddle, raised>>

NextController ==
    \/ StartStreaming
    \/ StopStreaming
    \/ ReaderEmit
    \/ ProcessIncoming

SpecController == InitController /\ [][NextController]_vars

(***************************************************************************)
(* ConnectionManager (Prototype/backend/main.py:23-40, 65-73).  handed is  *)
(* self.active_connections, a list of websockets named 1, 2, ...; rd the   *)
(* number of websockets accepted so far; pc the position of the broadcast  *)
(* coroutine ("idle", "next", "send", "closed"); iter the index of the     *)
(* list iterator of line 35; callLen the connection of the running send;   *)
(* frames the list as it was when the running broadcast started and        *)
(* emitted the sends it has attempted (observations).  The event loop runs *)
(* other coroutines only while broadcast awaits send_json.                 *)
(***************************************************************************)
MaxConns == 3

\* list.remove(x): the first occurrence is taken out
ListRemove(list, x) ==
    LET i == CHOOSE k \in 1..Len(list) :
                 list[k] = x /\ \A j \in 1..(k - 1) : list[j] # x
    IN  SubSeq(list, 1, i - 1) \o SubSeq(list, i + 1, Len(list))

InList(list, x) == \E k \in 1..Len(list) : list[k] = x

\* lines 24-25
InitManager ==
    /\ pieces = <<>>
    /\ stream = <<>>
    /\ rd = 0
    /\ pc = "idle"
    /\ buf = <<>>
    /\ frames = <<>>
    /\ emitted = <<>>
    /\ base = 0
    /\ iter = 0
    /\ callLen = 0
    /\ lastKind = "none"
    /\ handed = <<>>
    /\ straddle = FALSE
    /\ raised = FALSE

\* ConnectionManager.connect (lines 27-29), from websocket_endpoint
ManagerConnect ==
    /\ pc \in {"idle", "send"}
    /\ rd < MaxConns
    /\ rd' = rd + 1
    /\ handed' = Append(handed, rd + 1)
    /\ UNCHANGED <<pieces, stream, pc, buf, frames, emitted, base, iter,
                   callLen, lastKind, straddle, raised>>

\* ConnectionManager.disconnect (lines 31-32), from websocket_endpoint
\* when receive_text raises WebSocketDisconnect (lines 72-73)
ManagerDisconnect ==
    /\ pc \in {"idle", "send"}
    /\ \E c \in 1..rd :
          /\ InList(handed, c)
          /\ handed' = ListRemove(handed, c)
    /\ UNCHANGED <<pieces, stream, rd, pc, buf, frames, emitted, base, iter,
                   callLen, lastKind, straddle, raised>>

\* line 35: broadcast is called, the for statement creates the iterator
BroadcastStart ==
    /\ pc = "idle"
    /\ pc' = "next"
    /\ iter' = 0
    /\ frames' = handed
    /\ emitted' = <<>>
    /\ lastKind' = "broadcast"
    /\ UNCHANGED <<pieces, stream, rd, buf, base, callLen, handed, straddle,
                   raised>>

\* lines 35-37: the iterator yields the element at its index and moves on;
\* send_json is awaited
BroadcastNext ==
    /\ pc = "next"
    /\ iter < Len(handed)
    /\ callLen' = handed[iter + 1]
    /\ iter' = iter + 1
    /\ pc' = "send"
    /\ UNCHANGED <<pieces, stream, rd, buf, frames, emitted, base, lastKind,
                   handed, straddle, raised>>

\* line 37: send_json returns
BroadcastSent ==
    /\ pc = "send"
    /\ emitted' = Append(emitted, [connection |-> callLen, sent |-> TRUE])
    /\ pc' = "next"
    /\ UNCHANGED <<pieces, stream, rd, buf, frames, base, iter, callLen,
                   lastKind, handed, straddle, raised>>

\* lines 38-40: send_json raises, the connection is removed from the list;
\* remove raises ValueError, which leaves broadcast, when disconnect has
\* removed it already
BroadcastFailed ==
    /\ pc = "send"
    /\ emitted' = Append(emitted, [connection |-> callLen, sent |-> FALSE])
    /\ IF InList(handed, callLen)
       THEN /\ handed' = ListRemove(handed, callLen)
            /\ pc' = "next"
            /\ UNCHANGED <<raised, lastKind>>
       ELSE /\ raised' = TRUE
            /\ pc' = "closed"
            /\ lastKind' = "ValueError"
            /\ UNCHANGED handed
    /\ UNCHANGED <<pieces, stream, rd, buf, frames, base, iter, callLen,
                   straddle>>

\* line 35: the iterator is exhausted, broadcast returns
BroadcastEnd ==
    /\ pc = "next"
    /\ iter >= Len(handed)
    /\ pc' = "idle"
    /\ lastKind' = "returned"
    /\ UNCHANGED <<pieces, stream, rd, buf, frames, emitted, base, iter,
                   callLen, handed, straddle, raised>>

NextManager ==
    \/ ManagerConnect
    \/ ManagerDisconnect
    \/ BroadcastStart
    \/ BroadcastNext
    \/ BroadcastSent
    \/ BroadcastFailed
    \/ BroadcastEnd

SpecManager == InitManager /\ [][NextManager]_vars

(***************************************************************************)
(* SerialWorker.run with stop() and _close() (IMS/Main.py:274-478).  pc is *)
(* the phase run() is in: "start", "probe_cli" and "probe_data" (the two   *)
(* calls of _probe_cli), "config" (the head of the loop of _send_config),  *)
(* "ack" (_read_ack), "open" (the data port), "sniff", "read", "close"     *)
(* (the finally clause) and "returned".  straddle is the stop event,       *)
(* handed the serial ports held in _ser_cli and _ser_data, iter the polls  *)
(* made by the timed loop of the phase (its deadline passes after MaxPolls *)
(* polls), callLen the config lines sent, buf is sniff_buf and later buf,  *)
(* emitted the frames given to sig.frame.emit, raised whether line 405     *)
(* caught an exception, base the steps run() has taken since the stop      *)
(* event was set.                                                          *)
(***************************************************************************)
MaxPolls == 2
MaxLines == 2

\* line 389: while not self._stop_evt.is_set()
ReadLoopRuns_Ignore(stop_set) == TRUE
ReadLoopRuns(stop_set) == ~stop_set

\* line 369: while time.time() - t0 < 6.0 and not self._stop_evt.is_set()
SniffLoopRuns(polls, stop_set) == polls < MaxPolls /\ ~stop_set

\* lines 450-452: while time.time() < deadline, break when the event is set
AckLoopRuns(polls, stop_set) == polls < MaxPolls /\ ~stop_set

\* line 291: while time.time() - t0 < 2.5 (the event is not looked at)
ProbeLoopRuns(polls) == polls < MaxPolls

\* the longest run() goes on after the event is set: from the start through
\* two silent probes
StopSteps == 2 * MaxPolls + 4

\* one more step of run(), counted once the event is set
WorkerTick ==
    base' = IF straddle THEN Min2(base + 1, StopSteps + 1) ELSE 0

StopPieces ==
    {[k |-> "TL", type |-> TLV_TARGET_LIST, stride |-> STRIDE_LITE,
      recs |-> r, pad |-> 0] : r \in {<<>>, <<"A">>}}
StopSeqs == UNION {[1..n -> StopPieces] : n \in 0..MaxPieces}

InitStop ==
    /\ pieces \in StopSeqs
    /\ stream = StreamBytes(pieces, 1)
    /\ rd = 0
    /\ pc = "start"
    /\ buf = <<>>
    /\ frames = <<>>
    /\ emitted = <<>>
    /\ base = 0
    /\ iter = 0
    /\ callLen = 0
    /\ lastKind = "none"
    /\ handed = [cli |-> "none", data |-> "none"]
    /\ straddle = FALSE
    /\ raised = FALSE

\* lines 464-465: stop() sets the event (the caller then waits)
stop ==
    /\ ~straddle
    /\ straddle' = TRUE
    /\ base' = 0
    /\ UNCHANGED <<pieces, stream, rd, pc, buf, frames, emitted, iter,
                   callLen, lastKind, handed, raised>>

\* lines 319-326: equal port names end the run, else the first probe starts
RunStart ==
    /\ pc = "start"
    /\ \E same \in BOOLEAN :
          /\ pc' = IF same THEN "close" ELSE "probe_cli"
          /\ lastKind' = IF same THEN "config_ok_false" ELSE lastKind
    /\ iter' = 0
    /\ WorkerTick
    /\ UNCHANGED <<pieces, stream, rd, buf, frames, emitted, callLen,
                   handed, straddle, raised>>

\* lines 291-305: the port answers with text of the CLI; the port is kept
\* in _ser_cli and run() goes on to lines 343-348
ProbeAnswer ==
    /\ pc \in {"probe_cli", "probe_data"}
    /\ ProbeLoopRuns(iter)
    /\ handed' = [handed EXCEPT !.cli = "open"]
    /\ pc' = "config"
    /\ iter' = 0
    /\ callLen' = 0
    /\ WorkerTick
    /\ UNCHANGED <<pieces, stream, rd, buf, frames, emitted, lastKind,
                   straddle, raised>>

\* lines 291-306: nothing, or no text of the CLI, has arrived yet
ProbeQuiet ==
    /\ pc \in {"probe_cli", "probe_data"}
    /\ ProbeLoopRuns(iter)
    /\ iter' = iter + 1
    /\ WorkerTick
    /\ UNCHANGED <<pieces, stream, rd, pc, buf, frames, emitted, callLen,
                   lastKind, handed, straddle, raised>>

\* _probe_cli returns False: the second probe follows the first (line
\* 328), the run ends after the second (lines 333-340)
ProbeFalse ==
    /\ pc' = IF pc = "probe_cli" THEN "probe_data" ELSE "close"
    /\ lastKind' = IF pc = "probe_cli" THEN lastKind ELSE "config_ok_false"
    /\ iter' = 0
    /\ WorkerTick
    /\ UNCHANGED <<pieces, stream, rd, buf, frames, emitted, callLen,
                   handed, straddle, raised>>

\* lines 291, 307-309: the 2.5 s are over and the port is closed again
ProbeTimeout ==
    /\ pc \in {"probe_cli", "probe_data"}
    /\ ~ProbeLoopRuns(iter)
    /\ ProbeFalse

\* lines 310-312: the port cannot be opened, or a later call on it raises
\* a SerialException
ProbeError ==
    /\ pc \in {"probe_cli", "probe_data"}
    /\ ProbeFalse

\* lines 418-429 and 442-444, the head of the loop over the config lines:
\* after the last line config_ok is emitted, a set event or a write error
\* ends the run (line 349), else the line is written
SendLine ==
    /\ pc = "config"
    /\ \E write_error \in BOOLEAN :
          IF callLen = MaxLines
          THEN /\ pc' = "open"
               /\ lastKind' = "config_ok_true"
          ELSE IF straddle
          THEN /\ pc' = "close"
               /\ lastKind' = lastKind
          ELSE IF write_error
          THEN /\ pc' = "close"
               /\ lastKind' = "config_ok_false"
          ELSE /\ pc' = "ack"
               /\ lastKind' = lastKind
    /\ iter' = 0
    /\ WorkerTick
    /\ UNCHANGED <<pieces, stream, rd, buf, frames, emitted, callLen,
                   handed, straddle, raised>>

\* lines 450-461: one pass of the loop of _read_ack that does not end it
AckWait ==
    /\ pc = "ack"
    /\ AckLoopRuns(iter, straddle)
    /\ iter' = iter + 1
    /\ WorkerTick
    /\ UNCHANGED <<pieces, stream, rd, pc, buf, frames, emitted, callLen,
                   lastKind, handed, straddle, raised>>

\* lines 450-462 and 431-440: the deadline, the event or an answer ends
\* _read_ack; the next line follows
AckEnd ==
    /\ pc = "ack"
    /\ \E answered \in BOOLEAN : answered \/ ~AckLoopRuns(iter, straddle)
    /\ pc' = "config"
    /\ callLen' = callLen + 1
    /\ iter' = 0
    /\ WorkerTick
    /\ UNCHANGED <<pieces, stream, rd, buf, frames, emitted, lastKind,
                   handed, straddle, raised>>

\* lines 353-368: the data port is opened, or cannot be
OpenData ==
    /\ pc = "open"
    /\ \E serial_exception \in BOOLEAN :
          IF serial_exception
          THEN /\ pc' = "close"
               /\ lastKind' = "config_ok_false"
               /\ handed' = handed
          ELSE /\ pc' = "sniff"
               /\ lastKind' = lastKind
               /\ handed' = [handed EXCEPT !.data = "open"]
    /\ iter' = 0
    /\ buf' = <<>>
    /\ WorkerTick
    /\ UNCHANGED <<pieces, stream, rd, frames, emitted, callLen, straddle,
                   raised>>

\* lines 369-375 and 384-388: one read of the sniff loop; an empty read
\* costs its timeout, a magic word in sniff_buf starts the read loop
SniffRead ==
    /\ pc = "sniff"
    /\ SniffLoopRuns(iter, straddle)
    /\ \E n \in WaitingSizes(Len(stream) - rd) \cup {0} :
          \E b \in {buf \o Slice(stream, rd, rd + n)} :
              /\ rd' = rd + n
              /\ buf' = b
              /\ iter' = IF n = 0 THEN iter + 1 ELSE iter
              /\ pc' = IF Find(b) >= 0 THEN "read" ELSE "sniff"
              /\ lastKind' = IF Find(b) >= 0 THEN "data_started"
                             ELSE lastKind
    /\ WorkerTick
    /\ UNCHANGED <<pieces, stream, frames, emitted, callLen, handed,
                   straddle, raised>>

\* lines 369, 377-382: the six seconds are over, or the event is set, and
\* no magic word was seen
SniffEnd ==
    /\ pc = "sniff"
    /\ ~SniffLoopRuns(iter, straddle)
    /\ pc' = "close"
    /\ lastKind' = "config_ok_false"
    /\ WorkerTick
    /\ UNCHANGED <<pieces, stream, rd, buf, frames, emitted, iter, callLen,
                   handed, straddle, raised>>

\* lines 389-403: one pass of the read loop; the bytes read are parsed and
\* every frame is emitted, an empty read changes nothing
ReadPass ==
    /\ pc = "read"
    /\ ReadLoopRuns(straddle)
    /\ \E n \in WaitingSizes(Len(stream) - rd) \cup {0} :
          \E r \in {IF n = 0 THEN [frames |-> <<>>, buf |-> buf]
                    ELSE parse_buffer(buf \o Slice(stream, rd, rd + n))} :
              /\ rd' = rd + n
              /\ buf' = r.buf
              /\ emitted' = emitted \o FramesOf(r.frames, 1)
    /\ WorkerTick
    /\ UNCHANGED <<pieces, stream, pc, frames, iter, callLen, lastKind,
                   handed, straddle, raised>>

\* the read loop is left for the finally clause
ReadLeave ==
    /\ pc' = "close"
    /\ WorkerTick
    /\ UNCHANGED <<pieces, stream, rd, buf, frames, emitted, iter, callLen,
                   lastKind, handed, straddle, raised>>

\* line 389: the event is set and the loop ends
ReadStop ==
    /\ pc = "read"
    /\ ~ReadLoopRuns(straddle)
    /\ ReadLeave

\* lines 390-393: the read raises a SerialException, break
ReadError ==
    /\ pc = "read"
    /\ ReadLoopRuns(straddle)
    /\ ReadLeave

\* lines 405-407: any other exception of a phase that uses a port
RunRaise ==
    /\ pc \in {"probe_cli", "probe_data", "config", "ack", "sniff", "read"}
    /\ pc = "read" => ReadLoopRuns(straddle)
    /\ raised' = TRUE
    /\ pc' = "close"
    /\ lastKind' = "config_ok_false"
    /\ WorkerTick
    /\ UNCHANGED <<pieces, stream, rd, buf, frames, emitted, iter, callLen,
                   handed, straddle>>

\* lines 408-409 and 468-478: _close() closes each port that is open, and
\* run() returns
PortClose(s) == IF s = "open" THEN "closed" ELSE s

RunClose ==
    /\ pc = "close"
    /\ handed' = [cli |-> PortClose(handed.cli),
                  data |-> PortClose(handed.data)]
    /\ pc' = "returned"
    /\ lastKind' = "_close"
    /\ WorkerTick
    /\ UNCHANGED <<pieces, stream, rd, buf, frames, emitted, iter, callLen,
                   straddle, raised>>

NextStop ==
    \/ stop
    \/ RunStart
    \/ ProbeAnswer
    \/ ProbeQuiet
    \/ ProbeTimeout
    \/ ProbeError
    \/ SendLine
    \/ AckWait
    \/ AckEnd
    \/ OpenData
    \/ SniffRead
    \/ SniffEnd
    \/ ReadPass
    \/ ReadStop
    \/ ReadError
    \/ RunRaise
    \/ RunClose

\* the steps run() takes by itself, whatever the ports deliver: a pass of
\* a timed loop, the test of a deadline or of the stop event, the next
\* statement
RunAlone ==
    \/ RunStart
    \/ ProbeQuiet
    \/ ProbeTimeout
    \/ SendLine
    \/ AckWait
    \/ AckEnd
    \/ OpenData
    \/ SniffEnd
    \/ ReadStop
    \/ RunClose

\* the worker thread is scheduled for as long as run() has a step to take;
\* nothing is assumed about bytes arriving or ports failing
SpecStop == InitStop /\ [][NextStop]_vars /\ WF_vars(RunAlone)

(***************************************************************************)
(* Properties                                                              *)
(***************************************************************************)
\* every piece of the stream is a frame whose totalLength is its length
AllFrames == \A i \in 1..Len(pieces) : pieces[i] \in FramePieces

\* C1 Chunk-boundary invariance: when a stream of valid frames has been
\* fed chunk by chunk (buf += chunk; frames, buf = parse_buffer(buf)), the
\* frames returned over the calls, concatenated, are the frames one call on
\* the whole stream returns, however the stream was cut.
C1_ChunkInvariance ==
    (AllFrames /\ pc = "read" /\ rd = Len(stream))
        => emitted = parse_buffer(stream).frames

\* two frames came out although a read ended inside a magic word
C1_Witness ==
    /\ AllFrames /\ pc = "read" /\ rd = Len(stream)
    /\ straddle
    /\ Len(emitted) = 2

\* C2 Bounded retention: as long as the bytes read so far contain no magic
\* word, the buffer every call returns holds at most magicLength - 1 bytes.
C2_BoundedRetention ==
    (Find(Delivered) < 0 /\ pc \in {"emit", "read"})
        => Len(buf) <= Len(MAGIC_WORD) - 1

\* a call returned 7 bytes after 20 bytes without a magic word
C2_Witness ==
    /\ Find(Delivered) < 0 /\ pc = "emit"
    /\ rd >= 2 * Len(MAGIC_WORD)
    /\ Len(buf) = Len(MAGIC_WORD) - 1

IsByte(b) == b \in 0..255
IsF32(f) == DOMAIN f = {"neg", "mag"} /\ f.neg \in BOOLEAN /\ f.mag >= 0
IsRadarFrame(f) ==
    /\ DOMAIN f = {"frame_num", "points", "targets"}
    /\ \A i \in 1..Len(f.points) :
          Len(f.points[i]) = 4 /\ \A j \in 1..4 : IsF32(f.points[i][j])
    /\ \A i \in 1..Len(f.targets) :
          /\ DOMAIN f.targets[i] = {"id", "x", "y", "z"}
          /\ IsF32(f.targets[i].x) /\ IsF32(f.targets[i].y)
          /\ IsF32(f.targets[i].z)

\* C3 No exception escapes: no call of parse_buffer raises, and every call
\* returns a list of RadarFrame objects and a remaining buffer of bytes.
C3_NoException ==
    /\ ~raised
    /\ pc # "closed"
    /\ pc = "emit" =>
          /\ \A i \in 1..Len(frames) : IsRadarFrame(frames[i].fr)
          /\ \A i \in 1..Len(buf) : IsByte(buf[i])

\* a call returned after a frame whose TLV walk was cut short by the end of
\* the frame
C3_Witness ==
    /\ pc = "emit" /\ ~raised
    /\ \E i \in 1..Len(handed) : handed[i].stop \in {"overrun", "nohdr"}
    /\ Len(frames) >= 1

\* the frames returned so far: those emitted and those of the running call
Returned == emitted \o frames

\* C5 False-positive resilience: in a stream of frames, some of which carry
\* the magic pattern inside a point or target payload, every slice handed
\* to _parse_frame is exactly one frame of the stream, the frame decoded
\* from it has the points and targets that were encoded, and after the
\* slice is consumed the search resumes at the byte after the frame's end.
C5_FalsePositiveResilience ==
    AllFrames =>
        /\ Len(handed) <= Len(pieces)
        /\ Len(Returned) = Len(handed)
        /\ \A k \in 1..Len(handed) :
              /\ handed[k].off = PieceStart(pieces, k)
              /\ handed[k].len = Len(PieceBytes(pieces[k], k))
              /\ Returned[k].fr = ExpectedFrame(pieces[k], k)
        /\ (pc = "parse" /\ lastKind = "consume") =>
              /\ base = PieceStart(pieces, Len(handed))
                            + Len(PieceBytes(pieces[Len(handed)], Len(handed)))
              /\ buf = Slice(stream, base, rd)

\* a frame with the pattern in its target payload and one with the pattern
\* in its point payload were both decoded
C5_Witness ==
    /\ pieces = <<Piece("FTM"), Piece("FM")>>
    /\ pc = "read" /\ rd = Len(stream)
    /\ Len(emitted) = 2
    /\ emitted[1].fr.targets = <<TargetMagic>>
    /\ emitted[2].fr.points = <<PointMagic>>

\* C8 Unconditional consumption: right after a candidate was handed to
\* _parse_frame the buffer starts at the byte after the candidate, the
\* candidate's length is the totalLength its header declares, and no byte
\* is handed to _parse_frame twice.
C8_UnconditionalConsumption ==
    /\ (pc = "parse" /\ lastKind = "consume") =>
          /\ base = handed[Len(handed)].off + handed[Len(handed)].len
          /\ buf = Slice(stream, base, rd)
    /\ \A i \in 1..Len(handed) :
          /\ handed[i].len = UnpackU32(stream, handed[i].off + TOTAL_LEN_OFFSET)
          /\ i > 1 => handed[i - 1].off + handed[i - 1].len <= handed[i].off

\* a candidate was consumed and the bytes of the next frame remain
C8_Witness ==
    /\ pc = "parse" /\ lastKind = "consume"
    /\ Len(handed) = 1
    /\ Len(buf) >= HEADER_SIZE

\* every iteration that continues the loop has shortened the buffer, and
\* the TLV loop on a candidate of len bytes is entered at most
\* (len - 40) / 8 + 1 times
C9_Bounded ==
    /\ pc = "parse" => iter + Len(buf) <= callLen
    /\ iter < MaxIter
    /\ \A i \in 1..Len(handed) :
          handed[i].steps <= (handed[i].len - HEADER_SIZE) \div 8 + 1

\* an iteration that does not leave the loop removes, from the sync
\* position on, one byte (bad length) or totalLength >= 40 bytes (candidate)
C9_Step ==
    (pc = "parse" /\ pc' = "parse") =>
        LET idx == Find(buf)
            total == UnpackU32(stream, base + idx + TOTAL_LEN_OFFSET)
        IN  \/ lastKind' = "badlen" /\ Len(buf') = Len(buf) - idx - 1
            \/ /\ lastKind' = "consume"
               /\ total >= HEADER_SIZE
               /\ Len(buf') = Len(buf) - idx - total

\* C9 Termination: the drain loop of parse_buffer ends, since every
\* iteration leaves the loop or strictly shortens the buffer, and the TLV
\* loop of _parse_frame ends for every numTlvs, 2^32 - 1 included.
C9_Termination == [](C9_Bounded) /\ [][C9_Step]_vars

\* after a frame with numTlvs = 2^32 - 1 whose TLV loop was entered three
\* times, a bad length made the loop skip one byte
C9_Witness ==
    /\ pc = "parse" /\ lastKind = "badlen"
    /\ Len(handed) = 1 /\ pieces[1] = Piece("FZ")
    /\ handed[1].steps = 3 /\ handed[1].stop = "nohdr"

\* C10 Frame ordering: the frames returned and emitted so far were decoded
\* from slices that start with a magic word and follow each other in the
\* stream without overlap, one frame for each slice handed to _parse_frame,
\* in stream order; in a stream of frames they carry the frame numbers
\* 1, 2, ... in this order.
C10_FrameOrder ==
    /\ Len(Returned) = Len(handed)
    /\ \A i \in 1..Len(Returned) :
          /\ Returned[i].off = handed[i].off
          /\ Slice(stream, Returned[i].off, Returned[i].off + Len(MAGIC_WORD))
                = MAGIC_WORD
          /\ i > 1 =>
                Returned[i - 1].off + Returned[i - 1].len <= Returned[i].off
          /\ AllFrames => Returned[i].fr.frame_num = <<0, i>>

\* one call returned two frames
C10_Witness == pc = "emit" /\ Len(frames) = 2 /\ frames[1].off < frames[2].off

\* the single frame of the stream has been decoded and emitted
Decoded == pc = "read" /\ rd = Len(stream) /\ Len(pieces) = 1

\* C4 Round-trip decode: the frame {numTlvs=1, numDetectedObj=1} with one
\* TLV {type=1, length=24} and one 16-byte point, totalLength 64, decodes
\* to exactly one RadarFrame holding that point and no target.
C4_RoundTrip ==
    (Decoded /\ pieces[1] = [k |-> "PT", tlvlen |-> 24]) =>
        /\ Len(emitted) = 1
        /\ emitted[1].fr.points = <<PointA>>
        /\ emitted[1].fr.targets = <<>>

\* the results of the TLV that precedes the overrunning one
TruncExpected(p) ==
    IF p.first = "PT" THEN [points |-> <<PointA>>, targets |-> <<>>]
    ELSE [points |-> <<>>, targets |-> <<TargetOf("A")>>]

\* C6 Truncated TLV tolerance: a frame whose last TLV overruns the frame
\* yields a RadarFrame with the results of the TLVs parsed before it, and
\* the frame is marked truncated.
C6_TruncatedMarked ==
    (Decoded /\ pieces[1].k = "TR") =>
        /\ Len(emitted) = 1
        /\ handed[1].stop = "overrun"
        /\ emitted[1].fr.points = TruncExpected(pieces[1]).points
        /\ emitted[1].fr.targets = TruncExpected(pieces[1]).targets
        /\ "truncated" \in DOMAIN emitted[1].fr

\* the record at offset off of a target-list payload
RecordAt(payload, off) ==
    [id |-> UnpackWord(payload, off), x |-> UnpackF32(payload, off + 4),
     y |-> UnpackF32(payload, off + 8), z |-> UnpackF32(payload, off + 12)]

PlausibleTarget(t) == Plausible(t.x, t.y, t.z)

\* the records of a payload cut at the given stride that pass the sanity
\* test, in payload order
PlausibleRecords(payload, stride) ==
    SelectSeq([i \in 1..(Len(payload) \div stride) |->
                    RecordAt(payload, (i - 1) * stride)],
              PlausibleTarget)

NeitherStride(len) == len % STRIDE_FULL # 0 /\ len % STRIDE_LITE # 0

\* C7 as stated: 120 bytes give 3 targets, 112 bytes give 1 target, and a
\* length that is a multiple of neither 112 nor 40 is cut at 40 bytes.
C7_StrideCounts ==
    (Decoded /\ pieces[1].k = "TL") =>
        LET payload == TargetPayload(pieces[1])
            targets == emitted[1].fr.targets
        IN  /\ Len(payload) = 120 => Len(targets) = 3
            /\ Len(payload) = 112 => Len(targets) = 1
            /\ NeitherStride(Len(payload)) =>
                  targets = PlausibleRecords(payload, STRIDE_LITE)

\* C7 amended: a payload of 120 bytes is examined as three 40-byte records,
\* one of 112 bytes as one 112-byte record and one whose length is a
\* multiple of neither as floor(length / 40) 40-byte records; the targets
\* are the examined records that pass the sanity test of line 189, in
\* payload order, hence 3 (or 1) targets when all records pass it.
C7_StrideRecords ==
    (Decoded /\ pieces[1].k = "TL") =>
        LET payload == TargetPayload(pieces[1])
            targets == emitted[1].fr.targets
            allPass == \A i \in 1..Len(pieces[1].recs) :
                            pieces[1].recs[i] \in {"A", "B"}
        IN  /\ Len(payload) = 120 =>
                  /\ targets = PlausibleRecords(payload, STRIDE_LITE)
                  /\ (pieces[1].stride = STRIDE_LITE /\ allPass) =>
                        Len(targets) = 3
            /\ Len(payload) = 112 =>
                  /\ targets = PlausibleRecords(payload, STRIDE_FULL)
                  /\ allPass => Len(targets) = 1
            /\ NeitherStride(Len(payload)) =>
                  targets = PlausibleRecords(payload, STRIDE_LITE)

\* three plausible lite records gave three targets
C7_Witness ==
    /\ Decoded /\ pieces[1].k = "TL"
    /\ pieces[1].recs = <<"A", "B", "A">> /\ pieces[1].pad = 0
    /\ pieces[1].stride = STRIDE_LITE
    /\ Len(emitted) = 1
    /\ emitted[1].fr.targets = <<TargetOf("A"), TargetOf("B"), TargetOf("A")>>

\* the running or the last pass returned a frame that was sent: decoded
\* from a whole copy of the repeated frame
ValidReturned ==
    \E i \in 1..Len(frames) :
        /\ frames[i].off = PeriodStart
        /\ frames[i].len = PeriodLen
        /\ frames[i].fr = ExpectedFrame(pieces[Len(pieces)], Len(pieces))

\* no magic pattern inside the repeated frame (or across two copies of it)
\* is followed, 12 bytes later, by a length in [40, 65536]
NoFalseCandidate ==
    \A o \in 1..(PeriodLen - 1) :
        Supply(PeriodStart + o, Len(MAGIC_WORD)) = MAGIC_WORD
            => BadLength(UnpackU32(Supply(PeriodStart + o, 16),
                                   TOTAL_LEN_OFFSET))

\* C11 as stated: after any corrupt prefix, on a stream that goes on with
\* valid frames without end, a valid frame is emitted again and again.
C11_ResyncAlways == []<>ValidReturned

\* C11 amended: the same, for valid frames in which no embedded magic
\* pattern is followed by a plausible length.
C11_ResyncLiveness == []<>(NoFalseCandidate => ValidReturned)

\* after a prefix with a plausible but wrong length, which swallows the
\* magic word of the first valid frame, a valid frame is emitted
C11_Witness ==
    /\ pieces = <<Piece("LONG"), Piece("FP")>>
    /\ NoFalseCandidate
    /\ ValidReturned

\* a returned frame comes from a slice of the stream that starts with the
\* magic word, has the length its totalLength field declares, a length in
\* [40, 65536], and had been read completely
FromValidSlice(f) ==
    /\ Slice(stream, f.off, f.off + Len(MAGIC_WORD)) = MAGIC_WORD
    /\ f.len = UnpackU32(stream, f.off + TOTAL_LEN_OFFSET)
    /\ HEADER_SIZE <= f.len /\ f.len <= MAX_FRAME_BYTES
    /\ f.off + f.len <= rd
    /\ f.fr = parse_frame(Slice(stream, f.off, f.off + f.len)).frame

\* an iteration that rejects a length or waits adds no frame
NoFrameUnlessConsumed ==
    lastKind' \in {"nomagic", "waithdr", "waitbody", "badlen"}
        => frames' = frames

\* C12 Emitted-frame validity: every frame returned was decoded from a
\* contiguous, completely buffered slice that begins with the magic word
\* and is exactly as long as its totalLength says, 40 <= totalLength <=
\* 65536; a rejected length and a partly received candidate give no frame.
C12_EmittedFrameValidity ==
    [](\A i \in 1..Len(Returned) : FromValidSlice(Returned[i]))
        /\ [][NoFrameUnlessConsumed]_vars

\* one call rejected a length above 65536 and returned the frame behind the
\* rejected header
C12_Witness ==
    /\ pieces = <<Piece("BADBIG"), Piece("FP")>>
    /\ pc = "emit" /\ rd = Len(stream)
    /\ callLen > Len(buf) + Len(PieceBytes(pieces[2], 2))
    /\ Len(frames) = 1 /\ frames[1].off = PieceStart(pieces, 2)
    /\ emitted = <<>>

\* the TLV walk of the single frame of the stream
Walk == parse_frame(stream)

\* C13 TLV length semantics: a TLV whose sub-header is at offset o and
\* declares length L has a payload of L - 8 bytes, and the next sub-header
\* is read at o + L; so the frame whose two TLVs declare 24 and 48 decodes
\* to its point and its target.
C13_LengthCountsHeader ==
    Decoded =>
        /\ \A i \in 1..Len(Walk.tlvs) :
              /\ Walk.tlvs[i].plen = Walk.tlvs[i].len - 8
              /\ i < Len(Walk.tlvs) =>
                    Walk.tlvs[i + 1].at = Walk.tlvs[i].at + Walk.tlvs[i].len
        /\ pieces[1] = Piece("SP") =>
              /\ emitted[1].fr.points = <<PointA>>
              /\ emitted[1].fr.targets = <<TargetOf("A")>>

\* C14 Version-dependent header length: a frame whose version is
\* 0x01000005 has a 36-byte header; it is accepted with a totalLength of
\* 36 and more, and its TLV walk starts at offset 36.
C14_VersionHeader ==
    (Decoded /\ pieces[1].k = "OLD" /\ pieces[1].tlvlen \in {0, 24}) =>
        /\ Len(emitted) = 1
        /\ emitted[1].len = Len(stream)
        /\ emitted[1].fr.points =
                (IF pieces[1].tlvlen = 0 THEN <<>> ELSE <<PointA>>)
        /\ pieces[1].tlvlen # 0 =>
                Len(Walk.tlvs) = 1 /\ Walk.tlvs[1].at = 36

\* the frame decoded from the same frame sent without its unknown TLV
WithoutUnknown == parse_frame(PieceBytes([pieces[1] EXCEPT !.pos = 3], 1)).frame

\* C15 Unknown TLVs: a TLV whose type is none of 1, 6, 12 (4 and 7
\* included) does not stop the walk and changes neither points nor
\* targets: the frame decodes as it does without that TLV.
C15_UnknownTlvSkipped ==
    (Decoded /\ pieces[1].k = "UK" /\ pieces[1].pos < 3) =>
        /\ Len(emitted) = 1
        /\ handed[1].stop = "done" /\ handed[1].steps = 3
        /\ Len(Walk.tlvs) = 3
        /\ Walk.tlvs[pieces[1].pos + 1].type = pieces[1].type
        /\ emitted[1].fr.points = WithoutUnknown.points
        /\ emitted[1].fr.targets = WithoutUnknown.targets
        /\ WithoutUnknown.points = <<PointA>>
        /\ WithoutUnknown.targets = <<TargetOf("A")>>

\* a TLV of type 7 with 5 payload bytes stood between the point cloud and
\* the target list and both were decoded
C15_Witness ==
    /\ Decoded
    /\ pieces[1] = [k |-> "UK", type |-> TLV_TARGET_IDX, plen |-> 5, pos |-> 1]
    /\ Len(emitted) = 1
    /\ emitted[1].fr.points = <<PointA>>
    /\ emitted[1].fr.targets = <<TargetOf("A")>>

\* the loop is about to run an iteration on a buffer in which the first
\* magic word is followed by at least 40 bytes in all and by a totalLength
\* below 40 or above 65536
RejectedCandidate ==
    /\ pc = "parse"
    /\ Find(buf) >= 0
    /\ Len(buf) - Find(buf) >= HEADER_SIZE
    /\ LET total == UnpackU32(buf, Find(buf) + TOTAL_LEN_OFFSET) IN
          total < HEADER_SIZE \/ total > MAX_FRAME_BYTES

\* C16 Bad-length step: on a magic word with at least 40 bytes buffered and
\* a totalLength below 40 or above 65536 the iteration drops the bytes
\* before the magic word and exactly one byte of it, adds no frame, hands
\* nothing to _parse_frame and searches again.
C16_BadLengthStep ==
    [][(RejectedCandidate /\ iter' = iter + 1) =>
            /\ buf' = SliceFrom(buf, Find(buf) + 1)
            /\ base' = base + Find(buf) + 1
            /\ buf' = Slice(stream, base', rd)
            /\ frames' = frames
            /\ handed' = handed
            /\ pc' = "parse"]_vars

\* a header with totalLength 0 was rejected: its first byte is gone, the
\* 39 bytes behind it are still buffered
C16_Witness ==
    /\ pieces[1] = Piece("BAD0")
    /\ pc = "parse" /\ lastKind = "badlen"
    /\ base = 1 /\ Len(buf) >= HEADER_SIZE - 1
    /\ frames = <<>>

\* the loop is about to run an iteration on a buffer in which the first
\* magic word is followed by fewer than 40 bytes in all, or by a
\* totalLength in [40, 65536] that exceeds the bytes buffered from it
PartialCandidate ==
    /\ pc = "parse"
    /\ Find(buf) >= 0
    /\ \/ Len(buf) - Find(buf) < HEADER_SIZE
       \/ LET total == UnpackU32(buf, Find(buf) + TOTAL_LEN_OFFSET) IN
             /\ HEADER_SIZE <= total /\ total <= MAX_FRAME_BYTES
             /\ Len(buf) - Find(buf) < total

\* C17 Waiting discards nothing: on a magic word with an incomplete header
\* or an incomplete body behind it the call returns; it adds no frame for
\* that candidate and the buffer it returns is the input from the magic
\* word to the end, so only the bytes before the magic word are dropped.
C17_WaitKeepsCandidate ==
    [][(PartialCandidate /\ iter' = iter + 1) =>
            /\ buf' = SliceFrom(buf, Find(buf))
            /\ base' = base + Find(buf)
            /\ buf' = Slice(stream, base', rd)
            /\ Slice(buf', 0, Len(MAGIC_WORD)) = MAGIC_WORD
            /\ frames' = frames
            /\ handed' = handed
            /\ pc' = "emit"]_vars

\* a call returned while the body of a frame was incomplete, after it had
\* dropped the noise in front of the frame
C17_Witness ==
    /\ pieces = <<Piece("N7"), Piece("FP")>>
    /\ pc = "emit" /\ lastKind = "waitbody"
    /\ base = PieceStart(pieces, 2)
    /\ callLen > Len(buf)
    /\ Len(buf) >= HEADER_SIZE
    /\ frames = <<>>

StartsWithMagic(b) == Slice(b, 0, Len(MAGIC_WORD)) = MAGIC_WORD

\* (a) at most 7 bytes without a magic word
ShapeNoMagic == Len(buf) <= Len(MAGIC_WORD) - 1 /\ Find(buf) < 0

\* (b) a magic word and an incomplete header
ShapePartHeader == StartsWithMagic(buf) /\ Len(buf) < HEADER_SIZE

\* (c) a magic word, a complete header that declares a totalLength in
\* [40, 65536], and fewer bytes than that
ShapePartBody ==
    /\ StartsWithMagic(buf) /\ Len(buf) >= HEADER_SIZE
    /\ LET total == UnpackU32(buf, TOTAL_LEN_OFFSET) IN
          /\ HEADER_SIZE <= total /\ total <= MAX_FRAME_BYTES
          /\ Len(buf) < total

\* (c) as stated: a magic word, a totalLength field in [40, 65536], and
\* fewer bytes than that
ShapeDeclaresMore ==
    /\ StartsWithMagic(buf) /\ Len(buf) >= TOTAL_LEN_OFFSET + 4
    /\ LET total == UnpackU32(buf, TOTAL_LEN_OFFSET) IN
          /\ HEADER_SIZE <= total /\ total <= MAX_FRAME_BYTES
          /\ Len(buf) < total

\* C18 as stated: when a call returns, its buffer has exactly one of the
\* shapes (a), (b), (c as stated).
C18_ExactlyOneShape ==
    pc = "emit" =>
        \/ ShapeNoMagic /\ ~ShapePartHeader /\ ~ShapeDeclaresMore
        \/ ~ShapeNoMagic /\ ShapePartHeader /\ ~ShapeDeclaresMore
        \/ ~ShapeNoMagic /\ ~ShapePartHeader /\ ShapeDeclaresMore

\* C18 amended: when a call returns, its buffer has exactly one of the
\* shapes (a), (b), (c with a complete header); it is shorter than 65536
\* bytes and holds no complete frame at the sync position: a call on it
\* returns no frame and the same buffer.
C18_PostState ==
    pc = "emit" =>
        /\ \/ ShapeNoMagic /\ ~ShapePartHeader /\ ~ShapePartBody
           \/ ~ShapeNoMagic /\ ShapePartHeader /\ ~ShapePartBody
           \/ ~ShapeNoMagic /\ ~ShapePartHeader /\ ShapePartBody
        /\ Len(buf) < MAX_FRAME_BYTES
        /\ parse_buffer(buf).frames = <<>>
        /\ parse_buffer(buf).buf = buf
        /\ (lastKind = "nomagic") = ShapeNoMagic
        /\ (lastKind = "waithdr") = ShapePartHeader
        /\ (lastKind = "waitbody") = ShapePartBody

\* after a frame was emitted, a call returned with the complete header of
\* the next frame and a part of its body
C18_Witness ==
    /\ pc = "emit" /\ ShapePartBody
    /\ Len(emitted) = 1 /\ frames = <<>>
    /\ Len(buf) > HEADER_SIZE

\* frames whose TLV walk is cut short: an overrunning TLV (FTR, FX) or
\* fewer TLVs than numTlvs announces (FZ)
DamagedPieces == {Piece(k) : k \in {"FTR", "FZ", "FX"}}

\* the frames a call returns for frame piece q sent as frame number k,
\* directly followed by piece p as frame number k + 1
PairFrames(q, p, k) == parse_buffer(PieceBytes(q, k) \o PieceBytes(p, k + 1)).frames

\* C19 Locality of TLV damage: when frame k has a TLV that overruns it or
\* is otherwise cut short, exactly the totalLength bytes of frame k are
\* handed to _parse_frame and consumed, frame k decodes as it does alone,
\* and the frame right behind it decodes to the same RadarFrame as behind a
\* well-formed frame k.
C19_DamageIsLocal ==
    \A k \in 1..(Len(pieces) - 1) :
        (/\ \A j \in 1..(k + 1) : pieces[j] \in FramePieces
         /\ pieces[k] \in DamagedPieces
         /\ Len(Returned) >= k + 1)
        => /\ handed[k].stop \in {"overrun", "nohdr"}
           /\ handed[k].len = Len(PieceBytes(pieces[k], k))
           /\ handed[k + 1].off = handed[k].off + handed[k].len
           /\ Returned[k].fr = parse_frame(PieceBytes(pieces[k], k)).frame
           /\ Returned[k + 1].fr = PairFrames(Piece("FP"), pieces[k + 1], k)[2].fr
           /\ Returned[k + 1].fr = ExpectedFrame(pieces[k + 1], k + 1)

\* a frame with an overrunning TLV and the frame behind it, which carries
\* one point, were both decoded
C19_Witness ==
    /\ pieces = <<Piece("FTR"), Piece("FP")>>
    /\ pc = "read" /\ rd = Len(stream)
    /\ Len(emitted) = 2
    /\ handed[1].stop = "overrun"
    /\ emitted[1].fr.points = <<PointA>>
    /\ emitted[2].fr.points = <<PointA>>

\* the frame of the one piece was decoded and one of its three TLVs
\* declares fewer than 8 bytes
ShortTlvDecoded ==
    /\ Decoded
    /\ pieces[1].k = "UK" /\ pieces[1].pos < 3 /\ pieces[1].plen < 8

\* C20 Malformed short TLV: a TLV that declares a length below 8 ends the
\* walk: neither it nor a TLV behind it is sliced and dispatched, and the
\* frame is emitted with the points and targets of the TLVs in front of it
\* only.
C20_ShortTlvStopsWalk ==
    ShortTlvDecoded =>
        /\ Len(emitted) = 1
        /\ Len(Walk.tlvs) = pieces[1].pos
        /\ \A i \in 1..Len(Walk.tlvs) : Walk.tlvs[i].len >= 8
        /\ emitted[1].fr.points
               = IF pieces[1].pos >= 1 THEN <<PointA>> ELSE <<>>
        /\ emitted[1].fr.targets
               = IF pieces[1].pos >= 2 THEN <<TargetOf("A")>> ELSE <<>>

\* the points named by a sequence of names
PointsOf(names) == [i \in 1..Len(names) |-> PointOf(names[i])]

\* the frame of the one piece, a point-cloud TLV under a numDetectedObj
\* hint, was decoded
PointsDecoded == Decoded /\ pieces[1].k = "PN" /\ Len(emitted) = 1

\* the number of whole 16-byte records in the payload of the piece
WholePoints == Len(PointPayload(pieces[1])) \div POINT_STRIDE

\* C21 (amended) Point count: a numDetectedObj of zero gives
\* floor(payloadLength / 16) points and a positive one gives the smaller
\* of itself and floor(payloadLength / 16), so a hint that is zero or above
\* the payload's capacity gives exactly floor(payloadLength / 16); the
\* points are the leading records in payload order, trailing bytes are
\* ignored, nothing fails and an empty payload gives the empty sequence.
C21_PointCountHint ==
    PointsDecoded =>
        LET hint == pieces[1].hint
            count == IF hint = 0 \/ hint > WholePoints THEN WholePoints
                     ELSE hint
        IN  /\ ~raised
            /\ handed[1].stop = "done"
            /\ emitted[1].fr.points = SubSeq(PointsOf(pieces[1].pts), 1, count)
            /\ emitted[1].fr.targets = <<>>
            /\ (Len(PointPayload(pieces[1])) = 0 => emitted[1].fr.points = <<>>)

\* numDetectedObj was 0 and the payload held two points and 8 more bytes:
\* both points were decoded
C21_Witness ==
    /\ PointsDecoded
    /\ pieces[1] = [k |-> "PN", hint |-> 0, pts |-> <<"A", "B">>, pad |-> 8]
    /\ emitted[1].fr.points = <<PointA, PointB>>

\* C21 as stated: when numDetectedObj is zero or differs from
\* floor(payloadLength / 16), exactly floor(payloadLength / 16) points are
\* decoded, in payload order, the trailing bytes are ignored and an empty
\* payload gives an empty sequence.
C21_PointCount ==
    (/\ PointsDecoded
     /\ \/ pieces[1].hint = 0
        \/ pieces[1].hint # Len(PointPayload(pieces[1])) \div POINT_STRIDE)
    => /\ ~raised
       /\ Len(emitted[1].fr.points)
             = Len(PointPayload(pieces[1])) \div POINT_STRIDE
       /\ emitted[1].fr.points = PointsOf(pieces[1].pts)

\* the stride the rule gives for a payload length
RuleStride(len) == IF len > 0 /\ len % 112 = 0 THEN 112 ELSE 40

KeptNames(recs) == SelectSeq(recs, LAMBDA r : r \in {"A", "B"})

\* -20 < x < 20, 0 < y < 20, -1 < z < 5
InRange(t) ==
    /\ FltLess(F32_NEG20, t.x) /\ FltLess(t.x, F32_POS20)
    /\ FltLess(F32_ZERO, t.y) /\ FltLess(t.y, F32_POS20)
    /\ FltLess(F32_NEG1, t.z) /\ FltLess(t.z, F32_POS5)

\* the frame of the one piece, a target list whose records have the
\* stride the rule selects, was decoded
TargetsDecoded ==
    /\ Decoded /\ pieces[1].k = "TL"
    /\ pieces[1].stride = RuleStride(Len(TargetPayload(pieces[1])))

\* C23 Target filtering: the targets are exactly the examined records that
\* pass -20 < x < 20, 0 < y < 20, -1 < z < 5, in payload order; a record
\* that fails is dropped alone, the frame is still emitted, and records
\* with the same id are all kept.
C23_TargetFilter ==
    TargetsDecoded =>
        LET recs == pieces[1].recs
            sent == [i \in 1..Len(recs) |-> TargetOf(recs[i])]
            kept == KeptNames(recs)
        IN  /\ Len(emitted) = 1 /\ ~raised
            /\ emitted[1].fr.targets = SelectSeq(sent, InRange)
            /\ emitted[1].fr.targets
                  = [i \in 1..Len(kept) |-> TargetOf(kept[i])]
            /\ emitted[1].fr.points = <<>>

\* of three records the second, with y = 0.0, was dropped and the other
\* two, which have the same id, were kept in order
C23_Witness ==
    /\ TargetsDecoded
    /\ pieces[1].recs = <<"A", "Y0", "A">> /\ pieces[1].pad = 0
    /\ emitted[1].fr.targets = <<TargetOf("A"), TargetOf("A")>>

\* a step that found no magic word dropped no byte at which a magic word
\* of the stream starts that was not yet read to its end
NoMagicKeepsPrefix ==
    (pc = "parse" /\ lastKind' = "nomagic" /\ iter' = iter + 1)
        => \A o \in base..(base' - 1) :
              Slice(stream, o, o + Len(MAGIC_WORD)) = MAGIC_WORD
                  => o + Len(MAGIC_WORD) <= rd

\* C24 Chunking invariance on arbitrary input: whenever a call has
\* returned, the frames returned so far and the remaining buffer are those
\* of one call on all the bytes read so far, for streams of frames and
\* junk alike and however they were cut; and a sync miss never drops the
\* start of a magic word that later bytes complete.
C24_ChunkingArbitrary ==
    [](pc = "read" => /\ emitted = parse_buffer(Delivered).frames
                      /\ buf = parse_buffer(Delivered).buf)
        /\ [][NoMagicKeepsPrefix]_vars

\* a stream that starts with junk was read in chunks one of which ended
\* inside the magic word of the frame behind the junk; the frame came out
C24_Witness ==
    /\ pieces[1] \in JunkPieces /\ pieces[Len(pieces)] \in FramePieces
    /\ pc = "read" /\ rd = Len(stream)
    /\ straddle
    /\ Len(emitted) = 1
    /\ emitted = parse_buffer(stream).frames

\* what a named TLV decodes to on its own
ResultOf(name) ==
    CASE name = "PA" -> <<PointA>>
      [] name = "PB" -> <<PointB>>
      [] name \in {"P0", "T6Y"} -> <<>>
      [] name \in {"T6A", "T12A"} -> <<TargetOf("A")>>
      [] name = "T12B" -> <<TargetOf("B")>>

\* the result of the last TLV of the piece whose name is in kind, the empty
\* sequence if there is none
LastResult(names, kind) ==
    LET at == {i \in 1..Len(names) : names[i] \in kind} IN
    IF at = {} THEN <<>>
    ELSE ResultOf(names[CHOOSE i \in at : \A j \in at : j <= i])

PointTlvNames == {"PA", "PB", "P0"}
TargetTlvNames == {"T6A", "T6Y", "T12A", "T12B"}

\* C25 Several TLVs of one kind: the frame holds the result of the last
\* point-cloud TLV and of the last target-list TLV (type 6 or 12) in wire
\* order; earlier results are replaced, not added to, also by an empty
\* result, and neither of the types 6 and 12 has priority.
C25_LastTlvWins ==
    (Decoded /\ pieces[1].k = "MT") =>
        /\ Len(emitted) = 1 /\ ~raised
        /\ handed[1].stop = "done"
        /\ Len(Walk.tlvs) = Len(pieces[1].tlvs)
        /\ emitted[1].fr.points = LastResult(pieces[1].tlvs, PointTlvNames)
        /\ emitted[1].fr.targets = LastResult(pieces[1].tlvs, TargetTlvNames)

\* a target list of type 6, a point cloud and a target list of type 12
\* were decoded: the targets are those of the type-12 list
C25_Witness ==
    /\ Decoded /\ pieces[1] = [k |-> "MT", tlvs |-> <<"T6A", "PA", "T12B">>]
    /\ Len(emitted) = 1
    /\ emitted[1].fr.points = <<PointA>>
    /\ emitted[1].fr.targets = <<TargetOf("B")>>

\* the tracks of a frame that carries track S only
TracksS == [t \in {TrackOf("S").tid} |-> <<F_1_0, F_2_0, "Sitting">>]

\* C26 Malformed bytes are not fatal in PeopleMotionDetector: a frame
\* whose TLV sub-header (DH) or track record (DR) runs past the end of the
\* packet does not end read_serial, and a valid frame that arrives behind
\* it is parsed and its plot scheduled.
C26_MalformedNotFatal ==
    pieces[1] \in {Piece("DH"), Piece("DR")} =>
        /\ pc # "closed" /\ ~raised
        /\ (/\ Len(pieces) = 2 /\ pieces[2] = Piece("DV")
            /\ pc = "read" /\ rd = Len(stream))
           => \E i \in 1..Len(emitted) :
                 /\ emitted[i].off = PieceStart(pieces, 2)
                 /\ emitted[i].fr = TracksS

\* an iteration of parse_stream parsed a packet and deleted it
PacketParsed ==
    pc = "parse" /\ lastKind' = "packet" /\ iter' = iter + 1 /\ ~raised'

\* C27 Termination of PeopleMotionDetector.parse_stream: whatever the
\* buffer holds, a header with total length 0 included, every iteration
\* that parses a packet removes at least one byte, so a call on n bytes
\* returns after at most n + 1 iterations.
C27_ParseStreamTerminates ==
    [](pc = "parse" => iter <= callLen + 1)
        /\ [][PacketParsed => Len(buf') < Len(buf)]_vars

\* the loop body ran on a buffer whose first magic word is followed by a
\* packet length of 0
ZeroLengthHeader ==
    /\ pc = "parse" /\ lastKind' = "frame" /\ iter' = iter + 1
    /\ UnpackU32(buf, Find(buf) + TOTAL_LEN_OFFSET) = 0

\* C28 Termination of FrameParser.parse: the while loop ends for every
\* chunk and every buffer: every run of the loop body that does not break
\* shortens the buffer, so a call on n buffered bytes runs it at most n
\* times, and after a header with packet length 0 the magic word is no
\* longer at the head of the buffer.
C28_ParseTerminates ==
    [](pc = "parse" => iter <= callLen + 1)
        /\ [][(pc = "parse" /\ lastKind' = "frame" /\ iter' = iter + 1)
                    => Len(buf') < Len(buf)]_vars
        /\ [][ZeroLengthHeader => ~StartsWithMagic(buf')]_vars

\* C29 Bounded retention in RadarHandler.parse_frame: as long as the bytes
\* read from the data port contain no magic word, the handler's buffer
\* holds at most 7 bytes after every call.
C29_HandlerBoundedRetention ==
    (pc = "start_streaming" /\ Find(Delivered) < 0)
        => Len(buf) <= Len(MAGIC_WORD) - 1

\* a call returned a frame
FrameReturned == lastKind' = "frame" /\ Len(emitted') = Len(emitted) + 1

\* C30 Progress of the one-frame-per-call readers: a call that returns a
\* frame removes at least the 40 bytes of its header from the buffer, so
\* no bytes are returned as a frame twice and the frames returned never
\* outnumber the 40-byte headers read: without new input the calls end up
\* returning None.
C30_OneFrameProgress ==
    [](/\ HEADER_SIZE * Len(emitted) <= rd
       /\ \A i, j \in 1..Len(emitted) :
             i < j => emitted[i].off + HEADER_SIZE <= emitted[j].off)
        /\ [][FrameReturned => Len(buf') + HEADER_SIZE <= callLen']_vars


\* the target set of piece i of the stream, as parse_frame leaves it in
\* self.tracks
FrameTracks(i) ==
    Detector_parse_frame(PieceBytes(pieces[i], i),
                         UnpackU32(PieceBytes(pieces[i], i), 32)).tracks

\* the items an update_plot run saw, as a map
SeenTracks(run) ==
    [t \in {run.seen[j].tid : j \in 1..Len(run.seen)} |->
        (CHOOSE j \in 1..Len(run.seen) : run.seen[j].tid = t).entry]

\* a reader-thread step changes self.tracks
TracksModified == handed' # handed

\* C31 No torn reads of the track map: every update_plot run iterates over
\* the complete target set of exactly one parsed frame, without an error,
\* and self.tracks is never modified while update_plot iterates it.
C31_NoTornReads ==
    [](\A r \in 1..Len(emitted) :
          /\ ~emitted[r].error
          /\ emitted[r].done =>
                \E i \in 1..Len(pieces) :
                    /\ pieces[i].k # "DH"
                    /\ SeenTracks(emitted[r]) = FrameTracks(i))
        /\ [][lastKind = "plot" => ~TracksModified]_vars


\* the write index stays inside the fixed array
Radar2dLengthInRange == base \in 0..(BYTE_BUFFER_SIZE - 1)

\* C32 Buffer reset on error in read_and_parse_frame: a call in which an
\* exception was raised, while locating, bounds-checking or decoding a
\* frame, has emptied the buffer (byte_buffer_length = 0) and returned
\* None; and after every call 0 <= byte_buffer_length < 32768.
C32_BufferResetOnError ==
    /\ handed # {} => (base = 0 /\ lastKind = "except")
    /\ Radar2dLengthInRange


\* the frame the last _on_frame call handled
LastFrame == emitted[Len(emitted)]

\* the index of the last record of frame f that carries id
LastIndexOf(f, id) ==
    CHOOSE i \in 1..Len(f.targets) :
        /\ f.targets[i].id = id
        /\ \A j \in (i + 1)..Len(f.targets) : f.targets[j].id # id

\* C33 Last writer wins at the presentation layer: after _on_frame the
\* persons map has exactly one entry per distinct id of frame.targets and
\* none for another id, and the PersonState of an id holds the position of
\* the last record of the frame with that id, in payload order.
C33_LastWriterWins ==
    emitted # <<>> =>
        /\ DOMAIN handed
              = {LastFrame.targets[i].id : i \in 1..Len(LastFrame.targets)}
        /\ \A id \in DOMAIN handed :
              LET t == LastFrame.targets[LastIndexOf(LastFrame, id)]
              IN  /\ handed[id].tid = id
                  /\ handed[id].x = t.x
                  /\ handed[id].y = t.y
                  /\ handed[id].z = t.z

\* two frames were handled: the first left persons 1 and 2, the second
\* carries id 1 twice at different positions and not id 2
C33_Witness ==
    /\ Len(emitted) = 2
    /\ pieces[1].recs = <<"A", "B">>
    /\ pieces[2].recs = <<"A", "A2">>
    /\ Len(LastFrame.targets) = 2
    /\ DOMAIN handed = {<<0, 1>>}
    /\ handed[<<0, 1>>].x = F_M0_3


\* a queued chunk is delivered to process_incoming_data
ChunkDelivered == frames # <<>> /\ frames' = Tail(frames)

\* C34 Data is ignored while not streaming: a call of
\* process_incoming_data made while is_streaming is false leaves
\* session_data, frame_count and the leftover bytes of the parser
\* unchanged and emits no data_updated, so a chunk delivered after
\* stop_streaming or before start_streaming never enters the session.
C34_IgnoredWhileStopped ==
    [][(ChunkDelivered /\ pc = "stopped") =>
          /\ handed' = handed
          /\ iter' = iter
          /\ buf' = buf
          /\ emitted' = emitted]_vars

\* after stop_streaming a chunk the reader had queued was delivered and
\* ignored: the session, the leftover bytes and the emissions made while
\* streaming are still there
C34_Witness ==
    /\ lastKind = "ignored"
    /\ pc = "stopped"
    /\ handed # <<>>
    /\ buf # <<>>
    /\ iter = 1
    /\ Len(emitted) = 1
    /\ rd = Len(stream)
    /\ 20 * Len(handed) + Len(buf) < rd


\* the connections the running or last broadcast tried to send to
Attempted == {emitted[i].connection : i \in 1..Len(emitted)}

\* the connections whose send failed in it
SendFailed ==
    {emitted[i].connection : i \in {j \in 1..Len(emitted) : ~emitted[j].sent}}

\* C35 broadcast reaches every client: when a broadcast has returned, it
\* has attempted a send to every connection that was in active_connections
\* when it started, and no connection whose send failed is still in the
\* list, wherever the failing connections stand.
C35_BroadcastReachesAll ==
    lastKind = "returned" =>
        /\ \A i \in 1..Len(frames) : frames[i] \in Attempted
        /\ \A c \in SendFailed : ~InList(handed, c)


====
